---- MODULE Spec2Model ----
(***************************************************************************)
(* Model of the value-coercion engine of formatting.py: the per-kind       *)
(* routines fmt_bool .. fmt_tuple, the dispatcher fmt_value, and the text  *)
(* routines val2txt / txt2val.                                             *)
(*                                                                         *)
(* Python values are tagged records.  A str is a sequence of one-character *)
(* strings, a list/tuple/set is a sequence of values (a set carries its    *)
(* iteration order and holds no two elements that are == in Python), a     *)
(* dict is a sequence of <<key, value>> pairs in insertion order.  A       *)
(* finite float is the decimal m / 10^d in lowest terms.  A raised         *)
(* exception is the record Err(<exception class>).                         *)
(***************************************************************************)
EXTENDS Integers, Sequences, FiniteSets, TLC

(***************************************************************************)
(* Bounds of the checked input space.                                      *)
(***************************************************************************)
MaxListLen == 4
MaxDictLen == 2
MaxTxtLen == 3
MaxFields == 2

(***************************************************************************)
(* Characters.                                                             *)
(***************************************************************************)
Digits == <<"0", "1", "2", "3", "4", "5", "6", "7", "8", "9">>
LowerCs == <<"a", "b", "c", "d", "e", "f", "g", "h", "i", "j", "k", "l", "m",
             "n", "o", "p", "q", "r", "s", "t", "u", "v", "w", "x", "y", "z">>
UpperCs == <<"A", "B", "C", "D", "E", "F", "G", "H", "I", "J", "K", "L", "M",
             "N", "O", "P", "Q", "R", "S", "T", "U", "V", "W", "X", "Y", "Z">>
\* The punctuation the model's texts use, with its code points.
Puncts == <<" ", "+", ",", "-", ".", "/", "_">>
PunctOrd == <<32, 43, 44, 45, 46, 47, 95>>

Range(s) == {s[i] : i \in 1..Len(s)}
IndexOf(c, s) == CHOOSE i \in 1..Len(s) : s[i] = c

IsDigit(c) == c \in Range(Digits)
IsLower(c) == c \in Range(LowerCs)
IsUpper(c) == c \in Range(UpperCs)
IsCased(c) == IsLower(c) \/ IsUpper(c)
IsSpace(c) == c = " "

\* ord(c)
Ord(c) ==
    IF IsDigit(c) THEN 47 + IndexOf(c, Digits)
    ELSE IF IsUpper(c) THEN 64 + IndexOf(c, UpperCs)
    ELSE IF IsLower(c) THEN 96 + IndexOf(c, LowerCs)
    ELSE PunctOrd[IndexOf(c, Puncts)]

ToLower(c) == IF IsUpper(c) THEN LowerCs[IndexOf(c, UpperCs)] ELSE c
ToUpper(c) == IF IsLower(c) THEN UpperCs[IndexOf(c, LowerCs)] ELSE c

\* Value of a digit in bases up to 16; -1 when c is not a digit of any base.
DigitVal(c) ==
    IF IsDigit(c) THEN IndexOf(c, Digits) - 1
    ELSE IF ToLower(c) \in {"a", "b", "c", "d", "e", "f"}
         THEN 9 + IndexOf(ToLower(c), LowerCs)
    ELSE -1

(***************************************************************************)
(* str methods.                                                            *)
(***************************************************************************)
\* str.title(): a cased character is upper-cased when it follows an
\* uncased one (or starts the text) and lower-cased otherwise.
Title(s) ==
    [i \in 1..Len(s) |->
        IF i > 1 /\ IsCased(s[i-1]) THEN ToLower(s[i]) ELSE ToUpper(s[i])]

StrLower(s) == [i \in 1..Len(s) |-> ToLower(s[i])]

\* str.strip()
Strip(s) ==
    LET keep == {i \in 1..Len(s) : ~IsSpace(s[i])}
    IN IF keep = {} THEN <<>>
       ELSE LET lo == CHOOSE i \in keep : \A j \in keep : i <= j
                hi == CHOOSE i \in keep : \A j \in keep : j <= i
            IN SubSeq(s, lo, hi)

\* str.split(c): the parts between the separators, empty parts included.
Split(s, c) ==
    LET commas == {i \in 1..Len(s) : s[i] = c}
        cuts == commas \cup {0, Len(s) + 1}
        starts == cuts \ {Len(s) + 1}
        NextCut(i) == CHOOSE j \in cuts : j > i /\ \A h \in cuts : h > i => j <= h
        \* the k-th cut in increasing order
        Rank(i) == Cardinality({j \in starts : j <= i})
    IN [k \in 1..Cardinality(starts) |->
           LET i == CHOOSE j \in starts : Rank(j) = k
           IN SubSeq(s, i + 1, NextCut(i) - 1)]

RECURSIVE Join(_, _)
\* c.join(parts)
Join(parts, c) ==
    IF Len(parts) = 0 THEN <<>>
    ELSE IF Len(parts) = 1 THEN parts[1]
    ELSE parts[1] \o <<c>> \o Join(Tail(parts), c)

\* s < t on str: lexicographic by code point.
StrLt(s, t) ==
    \E i \in 1..(Len(t)) :
        /\ \A j \in 1..(i-1) : j <= Len(s) /\ s[j] = t[j]
        /\ i - 1 <= Len(s)
        /\ (i > Len(s) \/ Ord(s[i]) < Ord(t[i]))

(***************************************************************************)
(* Values, type descriptors and raised exceptions.                         *)
(***************************************************************************)
NoneV == [k |-> "none"]
BoolV(b) == [k |-> "bool", b |-> b]
IntV(n) == [k |-> "int", n |-> n]
\* the finite float m / 10^d, and the non-finite floats
FloatV(m, d) == [k |-> "float", sp |-> "fin", m |-> m, d |-> d]
InfV == [k |-> "float", sp |-> "inf", m |-> 0, d |-> 0]
NegInfV == [k |-> "float", sp |-> "ninf", m |-> 0, d |-> 0]
NanV == [k |-> "float", sp |-> "nan", m |-> 0, d |-> 0]
StrV(s) == [k |-> "str", s |-> s]
ListV(e) == [k |-> "list", e |-> e]
TupleV(e) == [k |-> "tuple", e |-> e]
SetV(e) == [k |-> "set", e |-> e]
DictV(kv) == [k |-> "dict", kv |-> kv]
\* a pathlib.PosixPath, by its text form
PathV(s) == [k |-> "path", s |-> s]
\* a value of a kind the engine has no routine for (the class ValueError)
OtherV == [k |-> "other"]

Err(e) == [k |-> "err", err |-> e]
ValueError == Err("ValueError")
TypeError == Err("TypeError")
IndexError == Err("IndexError")
OverflowError == Err("OverflowError")
IsErr(r) == r.k = "err"

\* Type descriptors: a plain type, or a generic alias with its origin and
\* its type arguments.
Plain(b) == [g |-> FALSE, b |-> b, a |-> <<>>]
Generic(b, a) == [g |-> TRUE, b |-> b, a |-> a]
TBool == Plain("bool")
TInt == Plain("int")
TFloat == Plain("float")
TStr == Plain("str")
TList == Plain("list")
TSet == Plain("set")
TTuple == Plain("tuple")
TDict == Plain("dict")
\* the value None used as a format, and the class type(None)
TNone == Plain("None")
TNoneType == Plain("NoneType")
TPath == Plain("Path")
TPosixPath == Plain("PosixPath")
TOther == Plain("type")

\* TypeOf with every path taken for a pathlib.Path
TypeOfPathAsPath(v) ==
    CASE v.k = "none" -> TNoneType
      [] v.k = "path" -> TPath
      [] v.k = "other" -> TOther
      [] OTHER -> Plain(v.k)

\* type(value)
TypeOf(v) ==
    CASE v.k = "none" -> TNoneType
      [] v.k = "path" -> TPosixPath
      [] v.k = "other" -> TOther
      [] OTHER -> Plain(v.k)

(***************************************************************************)
(* Numbers and their text forms.                                           *)
(***************************************************************************)
Abs(n) == IF n < 0 THEN -n ELSE n

RECURSIVE Pow10(_)
Pow10(n) == IF n <= 0 THEN 1 ELSE 10 * Pow10(n - 1)

RECURSIVE NormFloat(_, _)
\* the float m / 10^d in lowest terms
NormFloat(m, d) ==
    IF d > 0 /\ Abs(m) % 10 = 0
    THEN NormFloat(IF m < 0 THEN -(Abs(m) \div 10) ELSE m \div 10, d - 1)
    ELSE FloatV(m, d)

RECURSIVE NatStr(_)
NatStr(n) ==
    IF n < 10 THEN <<Digits[n + 1]>>
    ELSE NatStr(n \div 10) \o <<Digits[(n % 10) + 1]>>

\* str(n) for an int
IntStr(n) == IF n < 0 THEN <<"-">> \o NatStr(-n) ELSE NatStr(n)

RECURSIVE ZeroPad(_, _)
ZeroPad(s, w) == IF Len(s) >= w THEN s ELSE ZeroPad(<<"0">> \o s, w)

\* str(x) for a float: repr, which switches to exponent notation below
\* 1e-04 (the model's floats stay below 1e16).
FloatStr(f) ==
    CASE f.sp = "inf" -> <<"i", "n", "f">>
      [] f.sp = "ninf" -> <<"-", "i", "n", "f">>
      [] f.sp = "nan" -> <<"n", "a", "n">>
      [] OTHER ->
         LET a == Abs(f.m)
             sign == IF f.m < 0 THEN <<"-">> ELSE <<>>
             digs == NatStr(a)
             exp10 == Len(digs) - f.d - 1
         IN IF a = 0 THEN <<"0", ".", "0">>
            ELSE IF exp10 < -4
            THEN sign \o <<digs[1]>>
                 \o (IF Len(digs) > 1 THEN <<".">> \o Tail(digs) ELSE <<>>)
                 \o <<"e", "-">> \o ZeroPad(NatStr(-exp10), 2)
            ELSE IF f.d = 0 THEN sign \o digs \o <<".", "0">>
            ELSE sign \o NatStr(a \div Pow10(f.d)) \o <<".">>
                 \o ZeroPad(NatStr(a % Pow10(f.d)), f.d)

\* digitpart: digits of the base with single underscores between them
IsDigitPart(s, base) ==
    /\ Len(s) > 0
    /\ \A i \in 1..Len(s) :
          \/ DigitVal(s[i]) \in 0..(base - 1)
          \/ /\ s[i] = "_"
             /\ i > 1 /\ i < Len(s)
             /\ s[i-1] # "_" /\ s[i+1] # "_"

RECURSIVE DigitsVal(_, _, _)
\* value of a digitpart, read left to right from the accumulator acc
DigitsVal(s, base, acc) ==
    IF Len(s) = 0 THEN acc
    ELSE IF s[1] = "_" THEN DigitsVal(Tail(s), base, acc)
    ELSE DigitsVal(Tail(s), base, acc * base + DigitVal(s[1]))

DropUnderscores(s) == SelectSeq(s, LAMBDA c : c # "_")

NoParse == [ok |-> FALSE, v |-> NoneV]
Parsed(v) == [ok |-> TRUE, v |-> v]

\* the sign in front of a numeric text, and the text after it
Sign(t) == IF Len(t) > 0 /\ t[1] = "-" THEN -1 ELSE 1
Unsigned(t) == IF Len(t) > 0 /\ t[1] \in {"+", "-"} THEN Tail(t) ELSE t

\* the first position in u of a character of cs, Len(u) + 1 when it has none
FirstPos(u, cs) ==
    LET ps == {i \in 1..Len(u) : u[i] \in cs}
    IN IF ps = {} THEN Len(u) + 1 ELSE CHOOSE i \in ps : \A j \in ps : i <= j

\* the parts of an unsigned float text: mantissa "e" exponent, and the
\* integer and fractional digits of the mantissa
HasExponent(u) == FirstPos(u, {"e", "E"}) <= Len(u)
Mantissa(u) == SubSeq(u, 1, FirstPos(u, {"e", "E"}) - 1)
Exponent(u) == SubSeq(u, FirstPos(u, {"e", "E"}) + 1, Len(u))
IntPart(mant) == SubSeq(mant, 1, FirstPos(mant, {"."}) - 1)
FracPart(mant) == SubSeq(mant, FirstPos(mant, {"."}) + 1, Len(mant))

MantissaOk(mant) ==
    /\ Cardinality({i \in 1..Len(mant) : mant[i] = "."}) <= 1
    /\ Len(IntPart(mant)) = 0 \/ IsDigitPart(IntPart(mant), 10)
    /\ Len(FracPart(mant)) = 0 \/ IsDigitPart(FracPart(mant), 10)
    /\ Len(IntPart(mant)) > 0 \/ Len(FracPart(mant)) > 0

ExponentOk(u) == ~HasExponent(u) \/ IsDigitPart(Unsigned(Exponent(u)), 10)

ExponentVal(u) ==
    IF HasExponent(u)
    THEN Sign(Exponent(u)) * DigitsVal(Unsigned(Exponent(u)), 10, 0)
    ELSE 0

\* the float sign * ip.fdigs * 10^e
Scaled(sign, ip, fdigs, e) ==
    LET M == sign * DigitsVal(ip \o fdigs, 10, 0)
    IN IF e >= Len(fdigs) THEN FloatV(M * Pow10(e - Len(fdigs)), 0)
       ELSE NormFloat(M, Len(fdigs) - e)

\* float(t) of a text without surrounding blanks, sign taken apart
FloatOf(sign, u) ==
    IF StrLower(u) \in
        {<<"i", "n", "f">>, <<"i", "n", "f", "i", "n", "i", "t", "y">>}
    THEN Parsed(IF sign < 0 THEN NegInfV ELSE InfV)
    ELSE IF StrLower(u) = <<"n", "a", "n">> THEN Parsed(NanV)
    ELSE IF MantissaOk(Mantissa(u)) /\ ExponentOk(u)
    THEN Parsed(Scaled(sign, IntPart(Mantissa(u)),
                       DropUnderscores(FracPart(Mantissa(u))), ExponentVal(u)))
    ELSE NoParse

\* float(s): ok is FALSE when float raises ValueError
ParseFloat(s) == FloatOf(Sign(Strip(s)), Unsigned(Strip(s)))

\* int(s, base) for base 2, 8 or 16: ok is FALSE when int raises ValueError
ParseInt(s, base) ==
    LET t == Strip(s)
        signed == Len(t) > 0 /\ t[1] \in {"+", "-"}
        neg == signed /\ t[1] = "-"
        u == IF signed THEN Tail(t) ELSE t
        mark == CASE base = 2 -> "b" [] base = 8 -> "o" [] OTHER -> "x"
        prefixed == Len(u) >= 2 /\ u[1] = "0" /\ ToLower(u[2]) = mark
        r == IF prefixed THEN SubSeq(u, 3, Len(u)) ELSE u
        \* one underscore may follow the prefix
        ds == IF prefixed /\ Len(r) > 0 /\ r[1] = "_" THEN Tail(r) ELSE r
    IN IF IsDigitPart(ds, base)
       THEN Parsed(IntV((IF neg THEN -1 ELSE 1) * DigitsVal(ds, base, 0)))
       ELSE NoParse

\* the float has no fractional part: int(fv) == fv
IsIntegral(f) == f.sp = "fin" /\ f.d = 0

(***************************************************************************)
(* Python's ==, <, hash and the container constructors.                    *)
(***************************************************************************)
IsNum(v) == v.k \in {"bool", "int", "float"}

\* a bool or an int as the float of the same value
AsFloat(v) ==
    CASE v.k = "bool" -> FloatV(IF v.b THEN 1 ELSE 0, 0)
      [] v.k = "int" -> FloatV(v.n, 0)
      [] OTHER -> v

\* a == b on numbers (bool, int and float compare by value; an object that
\* is nan is taken to equal itself, as containers compare by identity first)
NumEq(a, b) ==
    LET x == AsFloat(a)
        y == AsFloat(b)
    IN /\ x.sp = y.sp
       /\ x.sp = "fin" => x.m * Pow10(y.d) = y.m * Pow10(x.d)

\* a < b on numbers
NumLt(a, b) ==
    LET x == AsFloat(a)
        y == AsFloat(b)
    IN CASE x.sp = "nan" \/ y.sp = "nan" -> FALSE
         [] x.sp = "ninf" -> y.sp # "ninf"
         [] x.sp = "inf" -> FALSE
         [] y.sp = "ninf" -> FALSE
         [] y.sp = "inf" -> TRUE
         [] OTHER -> x.m * Pow10(y.d) < y.m * Pow10(x.d)

RECURSIVE PyEq(_, _)
\* a == b
PyEq(a, b) ==
    CASE IsNum(a) /\ IsNum(b) -> NumEq(a, b)
      [] a.k # b.k -> FALSE
      [] a.k \in {"list", "tuple"} ->
            /\ Len(a.e) = Len(b.e)
            /\ \A i \in 1..Len(a.e) : PyEq(a.e[i], b.e[i])
      [] a.k = "set" ->
            /\ Len(a.e) = Len(b.e)
            /\ \A i \in 1..Len(a.e) : \E j \in 1..Len(b.e) : PyEq(a.e[i], b.e[j])
      [] a.k = "dict" ->
            /\ Len(a.kv) = Len(b.kv)
            /\ \A i \in 1..Len(a.kv) : \E j \in 1..Len(b.kv) :
                  PyEq(a.kv[i][1], b.kv[j][1]) /\ PyEq(a.kv[i][2], b.kv[j][2])
      [] OTHER -> a = b

RECURSIVE Hashable(_)
\* hash(v) does not raise TypeError
Hashable(v) ==
    CASE v.k \in {"list", "set", "dict"} -> FALSE
      [] v.k = "tuple" -> \A i \in 1..Len(v.e) : Hashable(v.e[i])
      [] OTHER -> TRUE

\* the elements of s at the index set I, in order
Pick(s, I) ==
    LET Rank(i) == Cardinality({j \in I : j <= i})
    IN [r \in 1..Cardinality(I) |-> s[CHOOSE i \in I : Rank(i) = r]]

\* the first occurrence of every element of s, as == tells them apart
Dedup(s) ==
    Pick(s, {i \in 1..Len(s) : \A j \in 1..(i-1) : ~PyEq(s[j], s[i])})

RECURSIVE PyLt(_, _)
\* a < b, where CanCompare(a, b)
PyLt(a, b) ==
    CASE IsNum(a) -> NumLt(a, b)
      [] a.k \in {"str", "path"} -> StrLt(a.s, b.s)
      [] OTHER ->
            LET n == IF Len(a.e) < Len(b.e) THEN Len(a.e) ELSE Len(b.e)
                diff == {i \in 1..n : ~PyEq(a.e[i], b.e[i])}
            IN IF diff = {} THEN Len(a.e) < Len(b.e)
               ELSE LET i == CHOOSE i \in diff : \A j \in diff : i <= j
                    IN PyLt(a.e[i], b.e[i])

RECURSIVE CanCompare(_, _)
\* a < b does not raise TypeError
CanCompare(a, b) ==
    CASE IsNum(a) /\ IsNum(b) -> TRUE
      [] a.k # b.k -> FALSE
      [] a.k \in {"str", "path"} -> TRUE
      [] a.k \in {"tuple", "list"} ->
            LET n == IF Len(a.e) < Len(b.e) THEN Len(a.e) ELSE Len(b.e)
                diff == {i \in 1..n : ~PyEq(a.e[i], b.e[i])}
            IN IF diff = {} THEN TRUE
               ELSE LET i == CHOOSE i \in diff : \A j \in diff : i <= j
                    IN CanCompare(a.e[i], b.e[i])
      [] OTHER -> FALSE

\* sorted(s) for a sequence of values; TypeError when two of them do not
\* compare
Sorted(s) ==
    IF \E i, j \in 1..Len(s) : i # j /\ ~CanCompare(s[i], s[j])
    THEN TypeError
    ELSE ListV(SortSeq(s, PyLt))

\* sorted(s) for a sequence of str values
SortedStrs(s) == SortSeq(s, LAMBDA a, b : StrLt(a.s, b.s))

(***************************************************************************)
(* State: one call of a routine with its arguments, then its result.       *)
(***************************************************************************)
VARIABLES
    pc,         \* the step to take next: a routine to call, or "done"
    op,         \* the routine called last, "" before the first call
    input,      \* the value the run started from
    value,      \* the value argument of the call
    fmt,        \* the fmt argument of the call (NoFmt for the text routines)
    result,     \* what the last call returned, or the exception it raised
    hashOrder,  \* the order in which a newly built set iterates its elements
    item_dict   \* the store base_add_item merges into, as its pairs in order

vars == <<pc, op, input, value, fmt, result, hashOrder, item_dict>>

\* set(s) / a set comprehension over s: equal elements collapse onto the
\* first one, and the set iterates in the order its hashing gives
Permute(s) ==
    LET inRange == SelectSeq(hashOrder, LAMBDA i : i <= Len(s))
        p == inRange \o [i \in 1..(Len(s) - Len(inRange)) |-> Len(inRange) + i]
    IN [i \in 1..Len(s) |-> s[p[i]]]

NewSet(s) ==
    IF \E i \in 1..Len(s) : ~Hashable(s[i]) THEN TypeError
    ELSE SetV(Permute(Dedup(s)))

\* d[key] = val on the pairs of a dict: an equal key keeps its place and
\* its key object and takes the new value
DictStore(kv, key, val) ==
    IF \E i \in 1..Len(kv) : PyEq(kv[i][1], key)
    THEN [i \in 1..Len(kv) |->
             IF PyEq(kv[i][1], key) THEN <<kv[i][1], val>> ELSE kv[i]]
    ELSE Append(kv, <<key, val>>)

\* key in d
DictHas(kv, key) == \E i \in 1..Len(kv) : PyEq(kv[i][1], key)

\* the first exception among the results rs, else the list of the results
FirstErrOr(rs) ==
    LET bad == {i \in 1..Len(rs) : IsErr(rs[i])}
    IN IF bad = {} THEN ListV(rs)
       ELSE rs[CHOOSE i \in bad : \A j \in bad : i <= j]

\* a set comprehension over the results rs, each added to the set as soon
\* as it is computed: the first exception, or TypeError at the first
\* unhashable result
SetComp(rs) ==
    LET r == FirstErrOr([i \in 1..Len(rs) |->
                 IF ~IsErr(rs[i]) /\ ~Hashable(rs[i]) THEN TypeError ELSE rs[i]])
    IN IF IsErr(r) THEN r ELSE NewSet(r.e)

(***************************************************************************)
(* get_ga_types                                                            *)
(***************************************************************************)
\* ok is FALSE when get_ga_types raises TypeError (fmt is not a generic
\* alias); else the origin and the type arguments
get_ga_types(ga_type) ==
    IF ga_type.g
    THEN [ok |-> TRUE, origin |-> ga_type.b, args |-> ga_type.a]
    ELSE [ok |-> FALSE, origin |-> "", args |-> <<>>]

(***************************************************************************)
(* get_dc_type_hints                                                       *)
(***************************************************************************)
\* a dataclass: the fields of its base class, then the fields its own body
\* declares, each a name with its declared type
Field(name, type) == [name |-> name, type |-> type]
DataclassV(base, own) == [k |-> "dataclass", base |-> base, own |-> own]

\* the position of the field called name in fs, 0 when there is none
FieldPos(fs, name) ==
    IF \E i \in 1..Len(fs) : fs[i].name = name
    THEN CHOOSE i \in 1..Len(fs) : fs[i].name = name
    ELSE 0

\* dataclasses.fields(dc): inherited fields first, in declaration order; a
\* field declared again by the subclass keeps its inherited place and takes
\* the new declaration
RECURSIVE MergeFields(_, _)
MergeFields(fs, own) ==
    IF own = <<>> THEN fs
    ELSE MergeFields(
             IF FieldPos(fs, Head(own).name) = 0 THEN Append(fs, Head(own))
             ELSE [fs EXCEPT ![FieldPos(fs, Head(own).name)] = Head(own)],
             Tail(own))
fields(dc) == MergeFields(dc.base, dc.own)

\* _a in [bool, int, str, list, set, tuple] for every type argument
ArgsIn(args) ==
    \A i \in 1..Len(args) : args[i] \in {TBool, TInt, TStr, TList, TSet, TTuple}

\* the entry of type_dict for a field of declared type t
HintOf(t) ==
    IF ~get_ga_types(t).ok THEN t
    ELSE IF get_ga_types(t).origin \in {"list", "dict", "set", "tuple"}
            /\ ArgsIn(get_ga_types(t).args)
         THEN t
         ELSE Plain(get_ga_types(t).origin)

\* the returned dict as its pairs in insertion order
HintsV(kv) == [k |-> "hints", kv |-> kv]
get_dc_type_hints(dc) ==
    IF dc.k # "dataclass" THEN TypeError
    ELSE HintsV([i \in 1..Len(fields(dc)) |->
                    <<fields(dc)[i].name, HintOf(fields(dc)[i].type)>>])

BoolStr(b) == IF b THEN <<"T", "r", "u", "e">> ELSE <<"F", "a", "l", "s", "e">>

\* str(pathlib.PosixPath(s)) for a non-empty s: empty and '.' segments are
\* dropped, exactly two leading slashes are kept, any other number is one
PathStr(s) ==
    LET lead == CHOOSE n \in 0..Len(s) :
                    /\ \A i \in 1..n : s[i] = "/"
                    /\ n < Len(s) => s[n + 1] # "/"
        root == IF lead = 0 THEN <<>>
                ELSE IF lead = 2 THEN <<"/", "/">> ELSE <<"/">>
        segs == SelectSeq(Split(s, "/"), LAMBDA x : x # <<>> /\ x # <<".">>)
        body == root \o Join(segs, "/")
    IN IF body = <<>> THEN <<".">> ELSE body

(***************************************************************************)
(* The coercion routines.  Each returns a value or the exception raised.   *)
(***************************************************************************)
\* Call(name, v, f) is the call name(v, f) made from inside a routine: the
\* routines call one another and themselves by name
RECURSIVE Call(_, _, _)
RECURSIVE DictLoop(_, _, _, _)

Containers == {"list", "set", "tuple"}

\* fmt_bool that wraps the value into the container without coercing it to
\* the element type
fmt_boolUncoerced(v, f) ==
    IF f = TBool THEN v
    ELSE IF f = TInt THEN IntV(IF v.b THEN 1 ELSE 0)
    ELSE IF f = TStr THEN StrV(BoolStr(v.b))
    ELSE IF f = TList THEN ListV(<<v>>)
    ELSE IF f = TSet THEN SetV(<<v>>)
    ELSE IF f = TTuple THEN TupleV(<<v>>)
    ELSE IF f.g /\ f.b \in Containers /\ Len(f.a) > 0
    THEN Call("fmt_list", ListV(<<v>>), Plain(f.b))
    ELSE ValueError

fmt_bool(v, f) ==
    IF f = TBool THEN v
    ELSE IF f = TInt THEN IntV(IF v.b THEN 1 ELSE 0)
    ELSE IF f = TStr THEN StrV(BoolStr(v.b))
    ELSE IF f = TList THEN ListV(<<v>>)
    ELSE IF f = TSet THEN SetV(<<v>>)
    ELSE IF f = TTuple THEN TupleV(<<v>>)
    ELSE LET ga == get_ga_types(f)
         IN IF ~ga.ok THEN ValueError
            ELSE IF Len(ga.args) = 0 THEN IndexError
            ELSE IF ga.origin \in Containers
            THEN LET r == Call("fmt_bool", v, ga.args[1])
                 IN IF IsErr(r) THEN r
                    ELSE Call("fmt_list", ListV(<<r>>), Plain(ga.origin))
            ELSE ValueError

\* fmt_float that gives the integer of a float without fractional part
fmt_floatNarrowing(v, f) ==
    IF f = TFloat THEN v
    ELSE IF f = TInt /\ IsIntegral(v) THEN IntV(v.m)
    ELSE IF f = TStr THEN StrV(FloatStr(v))
    ELSE IF f = TList THEN ListV(<<v>>)
    ELSE IF f = TSet THEN SetV(<<v>>)
    ELSE IF f = TTuple THEN TupleV(<<v>>)
    ELSE ValueError

fmt_float(v, f) ==
    IF f = TFloat THEN v
    ELSE IF f = TStr THEN StrV(FloatStr(v))
    ELSE IF f = TList THEN ListV(<<v>>)
    ELSE IF f = TSet THEN SetV(<<v>>)
    ELSE IF f = TTuple THEN TupleV(<<v>>)
    ELSE LET ga == get_ga_types(f)
         IN IF ~ga.ok THEN ValueError
            ELSE IF Len(ga.args) = 0 THEN IndexError
            ELSE IF ga.origin \in Containers
            THEN LET r == Call("fmt_float", v, ga.args[1])
                 IN IF IsErr(r) THEN r
                    ELSE Call("fmt_list", ListV(<<r>>), Plain(ga.origin))
            ELSE ValueError

\* the number an int (or a bool, which is an int) stands for
IntOf(v) == IF v.k = "bool" THEN (IF v.b THEN 1 ELSE 0) ELSE v.n

\* fmt_int that leaves an int as it is when the target is float
fmt_intUnwidened(v, f) ==
    IF f = TInt \/ f = TFloat THEN v
    ELSE IF f = TBool THEN BoolV(~(IntOf(v) = 0))
    ELSE IF f = TStr THEN StrV(IF v.k = "bool" THEN BoolStr(v.b) ELSE IntStr(v.n))
    ELSE IF f = TList THEN ListV(<<v>>)
    ELSE IF f = TSet THEN SetV(<<v>>)
    ELSE IF f = TTuple THEN TupleV(<<v>>)
    ELSE LET ga == get_ga_types(f)
         IN IF ~ga.ok THEN ValueError
            ELSE IF Len(ga.args) = 0 THEN IndexError
            ELSE IF ga.origin \in Containers
            THEN LET r == Call("fmt_int", v, ga.args[1])
                 IN IF IsErr(r) THEN r
                    ELSE Call("fmt_list", ListV(<<r>>), Plain(ga.origin))
            ELSE ValueError

fmt_int(v, f) ==
    IF f = TInt THEN v
    ELSE IF f = TBool THEN BoolV(~(IntOf(v) = 0))
    ELSE IF f = TStr THEN StrV(IF v.k = "bool" THEN BoolStr(v.b) ELSE IntStr(v.n))
    ELSE IF f = TFloat THEN FloatV(IntOf(v), 0)
    ELSE IF f = TList THEN ListV(<<v>>)
    ELSE IF f = TSet THEN SetV(<<v>>)
    ELSE IF f = TTuple THEN TupleV(<<v>>)
    ELSE LET ga == get_ga_types(f)
         IN IF ~ga.ok THEN ValueError
            ELSE IF Len(ga.args) = 0 THEN IndexError
            ELSE IF ga.origin \in Containers
            THEN LET r == Call("fmt_int", v, ga.args[1])
                 IN IF IsErr(r) THEN r
                    ELSE Call("fmt_list", ListV(<<r>>), Plain(ga.origin))
            ELSE ValueError

\* fmt_none that gives the zero of a scalar target instead of failing
fmt_noneDefaults(v, f) ==
    IF f = TNone THEN v
    ELSE IF f = TStr THEN StrV(<<>>)
    ELSE IF f = TBool THEN BoolV(FALSE)
    ELSE IF f = TInt THEN IntV(0)
    ELSE IF f = TFloat THEN FloatV(0, 0)
    ELSE IF f = TDict THEN DictV(<<>>)
    ELSE IF f = TList THEN ListV(<<>>)
    ELSE IF f = TSet THEN SetV(<<>>)
    ELSE IF f = TTuple THEN TupleV(<<>>)
    ELSE IF f.g /\ f.b \in Containers THEN Call("fmt_none", v, Plain(f.b))
    ELSE ValueError

fmt_none(v, f) ==
    IF f = TNone THEN v
    ELSE IF f = TStr THEN StrV(<<>>)
    ELSE IF f = TDict THEN DictV(<<>>)
    ELSE IF f = TList THEN ListV(<<>>)
    ELSE IF f = TSet THEN SetV(<<>>)
    ELSE IF f = TTuple THEN TupleV(<<>>)
    ELSE LET ga == get_ga_types(f)
         IN IF ga.ok /\ ga.origin \in Containers
            THEN Call("fmt_none", v, Plain(ga.origin))
            ELSE ValueError

\* the int / float branch of fmt_str; Fall when control passes on to the
\* next test
Fall == [k |-> "fall"]
StrToNumber(v, f) ==
    LET p == ParseFloat(v.s)
    IN IF ~p.ok THEN Fall
       ELSE IF f = TInt
       THEN CASE p.v.sp \in {"inf", "ninf"} -> OverflowError
              [] p.v.sp = "nan" -> ValueError
              [] IsIntegral(p.v) -> IntV(p.v.m)
              [] OTHER -> Fall
       ELSE p.v

fmt_str(v, f) ==
    IF f = TStr THEN v
    ELSE IF v.s = <<>> THEN Call("fmt_none", NoneV, f)
    ELSE IF f = TBool THEN BoolV(Title(v.s) = <<"T", "r", "u", "e">>)
    ELSE IF f \in {TInt, TFloat} /\ StrToNumber(v, f) # Fall
    THEN StrToNumber(v, f)
    ELSE IF f = TPosixPath THEN PathV(PathStr(v.s))
    ELSE IF f = TPath THEN PathV(PathStr(v.s))
    ELSE IF f = TList THEN ListV(<<v>>)
    ELSE IF f = TSet THEN SetV(<<v>>)
    ELSE IF f = TTuple THEN TupleV(<<v>>)
    ELSE LET ga == get_ga_types(f)
         IN IF ~ga.ok THEN ValueError
            ELSE IF Len(ga.args) = 0 THEN IndexError
            ELSE IF ga.origin \in Containers
            THEN LET r == Call("fmt_str", v, ga.args[1])
                 IN IF IsErr(r) THEN r
                    ELSE Call("fmt_list", ListV(<<r>>), Plain(ga.origin))
            ELSE ValueError

\* fmt_dict with fmt == list: the keys and values, alternating
DictToList(kv) ==
    [i \in 1..(2 * Len(kv)) |-> kv[(i + 1) \div 2][IF i % 2 = 1 THEN 1 ELSE 2]]

\* StoreIfNew with the test for a present key left out
StoreAlways(acc, new_key, new_value) == DictStore(acc, new_key, new_value)

\* one step of the loop that builds new_dict: the pair is stored unless
\* its key is already there
StoreIfNew(acc, new_key, new_value) ==
    IF DictHas(acc, new_key) THEN acc ELSE Append(acc, <<new_key, new_value>>)

\* the loop of fmt_dict over the pairs kv, from the pairs stored so far
DictLoop(kv, key_fmt, value_fmt, acc) ==
    IF Len(kv) = 0 THEN DictV(acc)
    ELSE LET new_key == Call("fmt_value", kv[1][1], key_fmt)
             new_value == Call("fmt_value", kv[1][2], value_fmt)
         IN IF IsErr(new_key) THEN new_key
            ELSE IF IsErr(new_value) THEN new_value
            ELSE IF ~Hashable(new_key) THEN TypeError
            ELSE DictLoop(Tail(kv), key_fmt, value_fmt,
                          StoreIfNew(acc, new_key, new_value))

fmt_dict(v, f) ==
    IF f = TDict THEN v
    ELSE IF f = TStr
    THEN LET r == Call("fmt_dict", v, Generic("list", <<TStr>>))
         IN IF IsErr(r) THEN r
            ELSE StrV(Join([i \in 1..Len(r.e) |-> r.e[i].s], ","))
    ELSE IF f = TList THEN ListV(DictToList(v.kv))
    ELSE LET ga == get_ga_types(f)
         IN IF ~ga.ok THEN ValueError
            ELSE IF ga.origin \in {"list", "dict"}
            THEN IF Len(ga.args) = 0 THEN IndexError
                 ELSE IF ga.origin = "dict" /\ Len(ga.args) < 2 THEN IndexError
                 ELSE LET key_fmt == ga.args[1]
                          value_fmt == IF ga.origin = "list" THEN key_fmt
                                       ELSE ga.args[2]
                          new_dict == DictLoop(v.kv, key_fmt, value_fmt, <<>>)
                      IN IF IsErr(new_dict) THEN new_dict
                         ELSE Call("fmt_dict", new_dict, Plain(ga.origin))
            ELSE ValueError

\* {value[k]: value[k+1] for k in range(0, len(value), 2)}
RECURSIVE PairsToDict(_, _)
PairsToDict(e, acc) ==
    IF Len(e) = 0 THEN DictV(acc)
    ELSE IF ~Hashable(e[1]) THEN TypeError
    ELSE PairsToDict(SubSeq(e, 3, Len(e)), DictStore(acc, e[1], e[2]))

\* JoinAsStr that keeps the square brackets of str(list)
JoinAsStrBracketed(e) ==
    LET r == FirstErrOr([i \in 1..Len(e) |-> Call("fmt_value", e[i], TStr)])
    IN IF IsErr(r) THEN r
       ELSE StrV(<<"[">> \o Join([i \in 1..Len(r.e) |-> r.e[i].s], ",") \o <<"]">>)

\* ','.join of the str forms of the elements
JoinAsStr(e) ==
    LET r == FirstErrOr([i \in 1..Len(e) |-> Call("fmt_value", e[i], TStr)])
    IN IF IsErr(r) THEN r
       ELSE StrV(Join([i \in 1..Len(r.e) |-> r.e[i].s], ","))

\* CycleFmt with the cycle started one argument late
CycleFmtShifted(args, i) == args[(i % Len(args)) + 1]

\* the element formats zip(value, itertools.cycle(_args)) pairs with the
\* elements: element i gets argument (i mod n), and nothing is paired when
\* there are no arguments
CycleFmt(args, i) == args[((i - 1) % Len(args)) + 1]

fmt_list(v, f) ==
    IF f = TList THEN v
    ELSE IF f = TStr THEN JoinAsStr(v.e)
    ELSE IF f = TSet THEN NewSet(v.e)
    ELSE IF f = TTuple THEN TupleV(v.e)
    ELSE IF f = TDict /\ Len(v.e) % 2 = 0 THEN PairsToDict(v.e, <<>>)
    ELSE LET ga == get_ga_types(f)
         IN IF ~ga.ok THEN ValueError
            ELSE IF ga.origin \in {"dict", "list", "set", "tuple"}
            THEN IF Len(v.e) > 0
                 THEN IF ga.origin = "dict"
                      THEN LET new_list ==
                                 IF Len(ga.args) = 0 THEN ListV(<<>>)
                                 ELSE FirstErrOr([i \in 1..Len(v.e) |->
                                         Call("fmt_value", v.e[i], CycleFmt(ga.args, i))])
                           IN IF IsErr(new_list) THEN new_list
                              ELSE Call("fmt_list", new_list, Plain(ga.origin))
                      ELSE IF Len(ga.args) = 0 THEN IndexError
                      ELSE LET new_list == FirstErrOr([i \in 1..Len(v.e) |->
                                               Call("fmt_value", v.e[i], ga.args[1])])
                           IN IF IsErr(new_list) THEN new_list
                              ELSE Call("fmt_list", new_list, Plain(ga.origin))
                 ELSE Call("fmt_list", v, Plain(ga.origin))
            ELSE ValueError

fmt_set(v, f) ==
    IF f = TSet THEN v
    ELSE IF f = TStr
    THEN LET r == SetComp([i \in 1..Len(v.e) |-> Call("fmt_value", v.e[i], TStr)])
         IN IF IsErr(r) THEN r
            ELSE LET new_value == SortedStrs(r.e)
                 IN StrV(Join([i \in 1..Len(new_value) |-> new_value[i].s], ","))
    ELSE IF f = TList THEN ListV(v.e)
    ELSE IF f = TTuple THEN TupleV(v.e)
    ELSE LET ga == get_ga_types(f)
         IN IF ~ga.ok THEN ValueError
            ELSE IF Len(ga.args) = 0 THEN IndexError
            ELSE IF ga.origin \in Containers
            THEN LET new_set == SetComp([i \in 1..Len(v.e) |->
                                            Call("fmt_value", v.e[i], ga.args[1])])
                 IN IF IsErr(new_set) THEN new_set
                    ELSE Call("fmt_set", new_set, Plain(ga.origin))
            ELSE ValueError

fmt_tuple(v, f) ==
    IF f = TTuple THEN v
    ELSE IF f = TStr THEN JoinAsStr(v.e)
    ELSE IF f = TList THEN ListV(v.e)
    ELSE IF f = TSet THEN NewSet(v.e)
    ELSE LET ga == get_ga_types(f)
         IN IF ~ga.ok THEN ValueError
            ELSE IF Len(ga.args) = 0 THEN IndexError
            ELSE IF ga.origin \in Containers
            THEN LET r == FirstErrOr([i \in 1..Len(v.e) |->
                                         Call("fmt_value", v.e[i], ga.args[1])])
                 IN IF IsErr(r) THEN r
                    ELSE Call("fmt_tuple", TupleV(r.e), Plain(ga.origin))
            ELSE ValueError

\* isinstance(v, cls): a bool is also an instance of int
IsInstance(v, cls) == v.k = cls \/ (cls = "int" /\ v.k = "bool")

\* Dispatch with the int test placed before the bool test
DispatchIntFirst(v) ==
    IF v.k = "none" THEN "fmt_none"
    ELSE IF IsInstance(v, "int") THEN "fmt_int"
    ELSE IF IsInstance(v, "bool") THEN "fmt_bool"
    ELSE IF IsInstance(v, "dict") THEN "fmt_dict"
    ELSE IF IsInstance(v, "float") THEN "fmt_float"
    ELSE IF IsInstance(v, "list") THEN "fmt_list"
    ELSE IF IsInstance(v, "set") THEN "fmt_set"
    ELSE IF IsInstance(v, "str") THEN "fmt_str"
    ELSE IF IsInstance(v, "tuple") THEN "fmt_tuple"
    ELSE ""

\* the routine the chain of tests of fmt_value selects, in the order of the
\* tests; "" when no test matches
Dispatch(v) ==
    IF v.k = "none" THEN "fmt_none"
    ELSE IF IsInstance(v, "bool") THEN "fmt_bool"
    ELSE IF IsInstance(v, "dict") THEN "fmt_dict"
    ELSE IF IsInstance(v, "float") THEN "fmt_float"
    ELSE IF IsInstance(v, "int") THEN "fmt_int"
    ELSE IF IsInstance(v, "list") THEN "fmt_list"
    ELSE IF IsInstance(v, "set") THEN "fmt_set"
    ELSE IF IsInstance(v, "str") THEN "fmt_str"
    ELSE IF IsInstance(v, "tuple") THEN "fmt_tuple"
    ELSE ""

fmt_value(v, f) ==
    IF TypeOf(v) = f THEN v
    ELSE IF Dispatch(v) = "" THEN ValueError
    ELSE Call(Dispatch(v), v, f)

\* the routines by name
Routine(name, v, f) ==
    CASE name = "fmt_none" -> fmt_none(v, f)
      [] name = "fmt_bool" -> fmt_bool(v, f)
      [] name = "fmt_dict" -> fmt_dict(v, f)
      [] name = "fmt_float" -> fmt_float(v, f)
      [] name = "fmt_int" -> fmt_int(v, f)
      [] name = "fmt_list" -> fmt_list(v, f)
      [] name = "fmt_set" -> fmt_set(v, f)
      [] name = "fmt_str" -> fmt_str(v, f)
      [] name = "fmt_tuple" -> fmt_tuple(v, f)
      [] name = "fmt_value" -> fmt_value(v, f)

Call(name, v, f) == Routine(name, v, f)

(* The text routines.                                                      *)
(***************************************************************************)
\* the set branch of val2txt: fmt_list(sorted(v), str)
SetToTxt(v) ==
    LET sorted == Sorted(v.e)
    IN IF IsErr(sorted) THEN sorted ELSE Call("fmt_list", sorted, TStr)

\* val2txt without the "or v is None" of its last test
val2txtNoNone(v) ==
    IF v.k = "str" THEN v
    ELSE IF v.k = "path" THEN StrV(v.s)
    ELSE IF v.k = "set" THEN SetToTxt(v)
    ELSE IF v.k \in {"bool", "dict", "float", "int", "list", "tuple"}
    THEN fmt_value(v, TStr)
    ELSE ValueError

val2txt(v) ==
    IF v.k = "str" THEN v
    ELSE IF v.k = "path" THEN StrV(v.s)
    ELSE IF v.k = "set" THEN SetToTxt(v)
    ELSE IF v.k \in {"bool", "dict", "float", "int", "list", "tuple"} \/ v = NoneV
    THEN fmt_value(v, TStr)
    ELSE ValueError

\* BasedInt that lets the ValueError of int out
BasedIntRaises(v, base) ==
    LET p == ParseInt(v.s, base) IN IF p.ok THEN p.v ELSE ValueError

\* the base-2/8/16 branch of txt2val: int(v, base), or v itself when int
\* raises
BasedInt(v, base) ==
    LET p == ParseInt(v.s, base) IN IF p.ok THEN p.v ELSE v

\* GuessNumber without the narrowing of a whole float to int
GuessNumberNoNarrow(v) ==
    LET p == ParseFloat(v.s) IN IF p.ok THEN p.v ELSE v

\* the last branch of txt2val: float(v), narrowed to int when it has no
\* fractional part; v itself when float raises
GuessNumber(v) ==
    LET p == ParseFloat(v.s)
    IN IF ~p.ok THEN v
       ELSE CASE p.v.sp \in {"inf", "ninf"} -> OverflowError
              [] p.v.sp = "nan" -> ValueError
              [] IsIntegral(p.v) -> IntV(p.v.m)
              [] OTHER -> p.v

RECURSIVE txt2val(_)
txt2val(v) ==
    IF v.k # "str" THEN v
    ELSE IF v.s = <<"N", "o", "n", "e">> THEN NoneV
    ELSE IF Title(v.s) \in {BoolStr(TRUE), BoolStr(FALSE)}
    THEN BoolV(Title(v.s) = BoolStr(TRUE))
    ELSE IF "," \in Range(v.s)
    THEN LET nv == Split(v.s, ",")
         IN FirstErrOr([i \in 1..Len(nv) |-> txt2val(StrV(Strip(nv[i])))])
    ELSE IF Len(v.s) > 2 /\ SubSeq(v.s, 1, 2) = <<"0", "b">> THEN BasedInt(v, 2)
    ELSE IF Len(v.s) > 2 /\ SubSeq(v.s, 1, 2) = <<"0", "o">> THEN BasedInt(v, 8)
    ELSE IF Len(v.s) > 2 /\ SubSeq(v.s, 1, 2) = <<"0", "x">> THEN BasedInt(v, 16)
    ELSE GuessNumber(v)

(***************************************************************************)
(* fmt_dataclass                                                           *)
(***************************************************************************)
\* an instance of the dataclass cls: its field values in field order
InstV(cls, v) == [k |-> "inst", cls |-> cls, v |-> v]

\* the type hint of field i of the dataclass cls
HintAt(cls, i) == get_dc_type_hints(cls).kv[i][2]

\* the loop of fmt_dataclass: every field coerced to its hint
CoercedFields(dc) ==
    [i \in 1..Len(dc.v) |-> fmt_value(dc.v[i], HintAt(dc.cls, i))]

\* rdc(**rdc_dict) when no coercion raised, r being the exception raised
\* first or the list of the coerced fields
Rebuilt(dc, r) == IF IsErr(r) THEN r ELSE InstV(dc.cls, r.e)

\* asdict raises TypeError for anything but a dataclass instance; the fields
\* are coerced in order, the first exception ends the call, and the class is
\* called with the coerced values
fmt_dataclass(dc) ==
    IF dc.k # "inst" THEN TypeError
    ELSE Rebuilt(dc, FirstErrOr(CoercedFields(dc)))

(***************************************************************************)
(* write_txt and read_txt                                                  *)
(***************************************************************************)
\* write_txt(dc) for a dataclass instance or an object that is no dataclass:
\* populate_list takes the instance's own value for every field, and each
\* value is passed to val2txt; TypeError for an object that is no dataclass
write_txt(dc) ==
    IF dc.k # "inst" THEN TypeError
    ELSE FirstErrOr([i \in 1..Len(dc.v) |-> val2txt(dc.v[i])])

\* read_txt that returns the texts as they are
read_txtUnparsed(input_list) == input_list

\* read_txt(input_list): txt2val of every element
read_txt(input_list) ==
    FirstErrOr([i \in 1..Len(input_list.e) |-> txt2val(input_list.e[i])])

(***************************************************************************)
(* process_container                                                       *)
(***************************************************************************)
\* isinstance(x, dc) for a class dc: a dataclass, or TOther for a class that
\* is no dataclass
IsA(x, dc) == IF dc = TOther THEN x = OtherV ELSE x.k = "inst" /\ x.cls = dc

\* len(x) == n_fields and isinstance(x[0], fmt_0), where fmt_0 is the hint
\* of the first field: "raise" when the test is reached with a hint that is
\* no class (a kept alias, typing.Union), which isinstance refuses
FitsFields(x, dc) ==
    IF Len(x.e) # Len(fields(dc)) THEN "no"
    ELSE IF HintAt(dc, 1).g \/ HintAt(dc, 1).b = "Union" THEN "raise"
    ELSE IF IsInstance(x.e[1], HintAt(dc, 1).b) THEN "yes" ELSE "no"

\* the first list of the lists xs that does not answer "yes"
FirstMisfit(xs, dc) ==
    CHOOSE i \in 1..Len(xs) :
        /\ FitsFields(xs[i], dc) # "yes"
        /\ \A j \in 1..(i - 1) : FitsFields(xs[j], dc) = "yes"

\* the list branch for a class dc, after the test for a list of instances
ListOfValues(container, dc) ==
    IF dc = TOther THEN TypeError
    ELSE IF Len(fields(dc)) = 0 THEN IndexError
    ELSE IF FitsFields(container, dc) = "raise" THEN TypeError
    ELSE IF FitsFields(container, dc) = "yes"
    THEN ListV(<<InstV(dc, container.e)>>)
    ELSE IF \E i \in 1..Len(container.e) : container.e[i].k # "list"
    THEN ValueError
    ELSE IF \A i \in 1..Len(container.e) : FitsFields(container.e[i], dc) = "yes"
    THEN ListV([i \in 1..Len(container.e) |-> InstV(dc, container.e[i].e)])
    ELSE IF FitsFields(container.e[FirstMisfit(container.e, dc)], dc) = "raise"
    THEN TypeError
    ELSE ValueError

process_container(container, dc) ==
    IF dc = TStr
    THEN IF container.k = "str" THEN ListV(<<container>>)
         ELSE IF container.k = "list"
                 /\ \A i \in 1..Len(container.e) : container.e[i].k = "str"
         THEN container
         ELSE ValueError
    ELSE IF container.k = "list"
    THEN IF \A i \in 1..Len(container.e) : IsA(container.e[i], dc)
         THEN container
         ELSE ListOfValues(container, dc)
    ELSE IF IsA(container, dc) THEN ListV(<<container>>)
    ELSE ValueError

(***************************************************************************)
(* base_add_item                                                           *)
(***************************************************************************)
\* the destination class used with the source class src: a subclass that
\* adds the field w, a list that is empty by default
DestOf(src) == DataclassV(fields(src), <<Field("w", TList)>>)

\* item_dest_class(*dataclasses.astuple(item_clean))
DestInst(item_clean, dest) == InstV(dest, item_clean.v \o <<ListV(<<>>)>>)

\* what a call leaves behind: the list it returns or the exception it
\* raises, and item_dict as it then is
Outcome(ret, d) == [ret |-> ret, d |-> d]

\* StoreItem that puts the item in place of the one stored under its key
StoreItemOverwrites(item_inst, item_key, d, added) ==
    LET pos == FieldPos(fields(item_inst.cls), item_key)
    IN IF pos = 0 THEN Outcome(Err("AttributeError"), d)
       ELSE IF ~Hashable(item_inst.v[pos]) THEN Outcome(TypeError, d)
       ELSE IF DictHas(d, item_inst.v[pos])
       THEN Outcome(ListV(added), DictStore(d, item_inst.v[pos], item_inst))
       ELSE Outcome(ListV(Append(added, item_inst.v[pos])),
                    Append(d, <<item_inst.v[pos], item_inst>>))

\* the store step for an item already built as item_inst: AttributeError
\* when item_key names no field, TypeError when the key cannot be hashed,
\* nothing stored when the key is in item_dict, else the item is stored and
\* its key noted
StoreItem(item_inst, item_key, d, added) ==
    LET pos == FieldPos(fields(item_inst.cls), item_key)
    IN IF pos = 0 THEN Outcome(Err("AttributeError"), d)
       ELSE IF ~Hashable(item_inst.v[pos]) THEN Outcome(TypeError, d)
       ELSE IF DictHas(d, item_inst.v[pos]) THEN Outcome(ListV(added), d)
       ELSE Outcome(ListV(Append(added, item_inst.v[pos])),
                    Append(d, <<item_inst.v[pos], item_inst>>))

\* the loop over item_list: each item is coerced, built and stored before
\* the next one is looked at, and an exception ends the loop where it is
RECURSIVE AddItems(_, _, _, _, _)
\* the rest of the loop after the store step of the first item
AfterStore(stored, item_list, dest, item_key) ==
    IF IsErr(stored.ret) THEN stored
    ELSE AddItems(Tail(item_list), dest, item_key, stored.d, stored.ret.e)

\* the body of the loop for the first item, coerced as item_clean
AddFirst(item_clean, item_list, dest, item_key, d, added) ==
    IF IsErr(item_clean) THEN Outcome(item_clean, d)
    ELSE AfterStore(StoreItem(DestInst(item_clean, dest), item_key, d, added),
                    item_list, dest, item_key)

AddItems(item_list, dest, item_key, d, added) ==
    IF item_list = <<>> THEN Outcome(ListV(added), d)
    ELSE AddFirst(fmt_dataclass(Head(item_list)), item_list, dest, item_key,
                  d, added)

base_add_item(item_container, item_src_class, item_dest_class, item_key, d) ==
    LET item_list == process_container(item_container, item_src_class)
    IN IF IsErr(item_list) THEN Outcome(item_list, d)
       ELSE AddItems(item_list.e, item_dest_class, item_key, d, <<>>)

(***************************************************************************)
(* The inputs the runs start from.                                         *)
(***************************************************************************)
SeqsUpTo(P, n) == UNION {[1..m -> P] : m \in 0..n}
ShortSeqs(P) == {<<>>} \cup {<<a>> : a \in P} \cup {<<a, b>> : a, b \in P}

Txt1 == StrV(<<"1">>)
Txt2 == StrV(<<"2">>)
TxtA == StrV(<<"a">>)
TxtTrue == StrV(BoolStr(TRUE))

Scalars ==
    {NoneV, BoolV(TRUE), BoolV(FALSE),
     IntV(0), IntV(1), IntV(2), IntV(10), IntV(-37),
     FloatV(15, 1), FloatV(1, 0), FloatV(-25, 2), InfV, NanV,
     StrV(<<>>), Txt1, Txt2, TxtA, TxtTrue, StrV(<<"t", "R", "U", "E">>),
     StrV(<<"1", ".", "5">>), StrV(<<"1", ".", "0">>), StrV(<<"i", "n", "f">>),
     StrV(<<".", "/", "a">>),
     PathV(<<"a">>), OtherV}

\* elements of the short containers
ElemPool ==
    {NoneV, BoolV(TRUE), IntV(1), IntV(2), IntV(10), FloatV(15, 1),
     Txt1, Txt2, TxtA, ListV(<<IntV(1), IntV(2)>>), TupleV(<<IntV(1)>>),
     PathV(<<"a">>)}
\* elements of the longer lists
KeyPool == {IntV(1), BoolV(TRUE), Txt1, TxtA}
SetPool == (ElemPool \ {ListV(<<IntV(1), IntV(2)>>)}) \cup {IntV(9), StrV(<<>>)}
DictKeys == {IntV(1), BoolV(TRUE), Txt1, TxtA}
DictVals == {Txt1, StrV(<<"x">>), IntV(2), ListV(<<IntV(1)>>)}

Lists == {ListV(e) : e \in ShortSeqs(ElemPool) \cup SeqsUpTo(KeyPool, MaxListLen)}
Tuples == {TupleV(e) : e \in ShortSeqs(ElemPool)}
\* a set holds hashable elements, no two of them equal
Sets == {SetV(e) : e \in {x \in ShortSeqs(SetPool) : Dedup(x) = x}}
Dicts ==
    {DictV(kv) : kv \in {x \in SeqsUpTo(DictKeys \X DictVals, MaxDictLen) :
        \A i, j \in 1..Len(x) : i # j => ~PyEq(x[i][1], x[j][1])}}

Values == Scalars \cup Lists \cup Tuples \cup Sets \cup Dicts

PlainFmts ==
    {TBool, TInt, TFloat, TStr, TList, TSet, TTuple, TDict, TNone, TNoneType,
     TPath, TPosixPath, TOther}
ElemFmts ==
    {TBool, TInt, TFloat, TStr, TList, TSet, TTuple, TPath, TPosixPath,
     Generic("list", <<TInt>>)}
KeyFmts == {TInt, TStr, TBool, TList}
ValFmts == {TInt, TStr, TBool}
GenericFmts ==
    {Generic(b, <<e>>) : b \in Containers, e \in ElemFmts}
    \cup {Generic("dict", <<a, b>>) : a \in KeyFmts, b \in ValFmts}
    \cup {Generic("list", <<>>), Generic("dict", <<>>)}
    \cup {Generic("tuple", <<TInt, TStr>>)}
Fmts == PlainFmts \cup GenericFmts

\* the text routines take no fmt
NoFmt == Plain("")

TxtAlphabet == {"0", "1", "5", ".", ",", "-", " ", "x", "b", "e", "_"}
TxtAtoms ==
    {<<"N", "o", "n", "e">>, <<"n", "o", "n", "e">>,
     BoolStr(TRUE), BoolStr(FALSE), <<"t", "r", "u", "e">>,
     <<"t", "R", "U", "E">>, <<"F", "A", "L", "S", "E">>,
     <<"T", "r", "u", "e", " ">>, <<"T", "r", "u", "e", "s">>,
     <<"0", "x", "1", "1", "0">>, <<"0", "x", "1", "1", "0", "x">>,
     <<"0", "b", "1", "1", "0">>, <<"0", "b", "1", "1", "0", "x">>,
     <<"0", "o", "7", "7", "0">>, <<"0", "o", "7", "7", "0", "x">>,
     <<"0", "X", "1", "1">>, <<"0", "x", "f", "F">>,
     <<"1", ".", "5", "0">>, <<"1", ",", "s", ",", "T", "r", "u", "e">>,
     <<"a", ",", " ", "1">>, <<"N", "o", "n", "e", ",", "t", "r", "u", "e">>,
     <<"n", "a", "n">>, <<"i", "n", "f">>, <<"-", "I", "n", "f">>,
     <<"1", "e", "-", "5">>, <<"-", "3", "7">>,
     <<"i", "n", "f", ",", "1">>, <<"1", ",", " ", "n", "a", "n">>}
\* a text whose exponent, if it has one, is a single digit: the numbers read
\* from such texts stay within 32-bit integers
ShortExponent(s) == Len(Unsigned(Exponent(Unsigned(Strip(s))))) <= 1
TxtInputs ==
    {StrV(s) : s \in {t \in SeqsUpTo(TxtAlphabet, MaxTxtLen) : ShortExponent(t)}
                     \cup TxtAtoms}
    \cup {NoneV, IntV(1), BoolV(TRUE), FloatV(15, 1), ListV(<<Txt1>>)}

\* declared field types: plain kinds, and aliases over the four container
\* kinds and over typing.Union
FieldTypes ==
    {TStr, TSet,
     Generic("list", <<TInt>>), Generic("list", <<TFloat>>),
     Generic("list", <<TNoneType>>),
     Generic("list", <<Generic("list", <<TInt>>)>>),
     Generic("set", <<TStr>>), Generic("tuple", <<TInt>>),
     Generic("dict", <<TStr, TList>>), Generic("dict", <<TStr, TDict>>),
     Generic("Union", <<TInt, TNoneType>>),
     Generic("Union", <<TInt, TStr>>)}
FieldSeqs(names, types, n) ==
    {fs \in UNION {[1..m -> {Field(nm, t) : nm \in names, t \in types}] :
                      m \in 0..n} :
        \A i, j \in 1..Len(fs) : i # j => fs[i].name # fs[j].name}
Dataclasses ==
    {DataclassV(base, own) :
         base \in FieldSeqs({"x"}, {TInt, TSet, Generic("list", <<TFloat>>)}, 1),
         own \in FieldSeqs({"x", "a", "b"}, FieldTypes, MaxFields)}
\* arguments of get_dc_type_hints: dataclasses, and objects that are none
DcInputs == Dataclasses \cup {IntV(1), StrV(<<"a">>), NoneV}

\* dataclasses declaring the fields x, y, z of the given types, and their
\* instances with unformatted values
RecClass(ts) ==
    DataclassV(<<>>, [i \in 1..Len(ts) |-> Field(<<"x", "y", "z", "w">>[i], ts[i])])
RecTypes == {TInt, TStr, TSet, Generic("set", <<TInt>>)}
RecVals ==
    {Txt1, StrV(<<"i", "n", "f">>), ListV(<<Txt1, TxtA>>),
     ListV(<<ListV(<<IntV(1)>>)>>)}
Instances ==
    {InstV(RecClass(ts), vs) : ts \in [1..MaxFields -> RecTypes],
                               vs \in [1..MaxFields -> RecVals]}
\* arguments of fmt_dataclass: instances, a dataclass itself, and an object
\* of a class that is no dataclass
DcInstInputs == Instances \cup {RecClass(<<TInt>>), OtherV, IntV(1)}

\* records with fields (groups: list, name: str, platforms: list) holding
\* words, among them words that txt2val reads as a keyword or as a number
Words ==
    {TxtA, StrV(<<"g", "1">>), StrV(<<"n", "e", "m", "o">>),
     StrV(<<"n", "o", "n", "e">>), StrV(<<"i", "n", "f">>)}
WordRecords ==
    {InstV(RecClass(<<TList, TStr, TList>>), <<ListV(g), n, ListV(p)>>) :
         g \in ShortSeqs(Words), n \in Words, p \in ShortSeqs(Words)}

\* the classes process_container is called with: str, dataclasses whose
\* first field is an int, a list, a List[int], a class that is no dataclass
ItemClasses ==
    {TStr, TOther, RecClass(<<TInt, TSet>>), RecClass(<<TList, TStr>>),
     RecClass(<<Generic("list", <<TInt>>), TStr>>)}
\* containers: raw values, instances, and lists of up to two of them
ItemPool ==
    {IntV(1), BoolV(TRUE), Txt1, OtherV, TupleV(<<IntV(1), Txt1>>),
     ListV(<<IntV(1)>>), ListV(<<IntV(1), Txt1>>), ListV(<<Txt1, IntV(1)>>),
     ListV(<<ListV(<<IntV(1)>>), Txt1>>),
     InstV(RecClass(<<TInt, TSet>>), <<IntV(1), SetV(<<IntV(1)>>)>>),
     InstV(RecClass(<<TList, TStr>>), <<ListV(<<IntV(1)>>), Txt1>>)}
ItemContainers == ItemPool \cup {ListV(e) : e \in ShortSeqs(ItemPool)}

\* the source class of the merges, the items merged and the containers
\* holding them: an instance, a list of instances, a flat list of values, a
\* list of such lists, and an int, which is none of these
MergeClass == RecClass(<<TInt, TStr>>)
MergeItems ==
    {InstV(MergeClass, v) :
         v \in {<<IntV(1), Txt1>>, <<IntV(1), IntV(2)>>, <<IntV(2), Txt1>>,
                <<Txt1, IntV(2)>>, <<TxtA, Txt1>>}}
MergeFirst == {InstV(MergeClass, <<IntV(1), Txt1>>), InstV(MergeClass, <<IntV(2), Txt1>>)}
MergeContainers ==
    MergeItems \cup {ListV(<<>>), IntV(1)}
    \cup {ListV(<<i, j>>) : i \in MergeFirst, j \in MergeItems}
    \cup {ListV(i.v) : i \in MergeItems}
    \cup {ListV(<<ListV(i.v), ListV(j.v)>>) : i \in MergeFirst, j \in MergeItems}
\* item_key: the fields x and y, the added field w, and no field at all
MergeKeys == {"x", "y", "w", "q"}

\* iteration orders of a newly built set, as permutations of positions
Orders == {<<1, 2, 3>>, <<3, 2, 1>>, <<2, 3, 1>>}

(***************************************************************************)
(* Runs: a call of fmt_value, val2txt or txt2val on an input; a result of  *)
(* fmt_value is then passed to fmt_value again with the same fmt, and a    *)
(* result of val2txt is passed to txt2val.                                 *)
(* A call of get_dc_type_hints on a dataclass is a run of its own.         *)
(* So are a call of fmt_dataclass and a call of process_container; a row   *)
(* written by write_txt is passed to read_txt; base_add_item is called any *)
(* number of times on the same item_dict, with input as its item_key.      *)
(***************************************************************************)
Init ==
    /\ op = ""
    /\ hashOrder \in Orders
    /\ \/ pc = "fmt_value" /\ input \in Values /\ fmt \in Fmts
       \/ pc = "val2txt" /\ input \in Values /\ fmt = NoFmt
       \/ pc = "txt2val" /\ input \in TxtInputs /\ fmt = NoFmt
       \/ /\ pc = "get_dc_type_hints" /\ input \in DcInputs /\ fmt = NoFmt
          /\ hashOrder = <<1, 2, 3>>
       \/ pc = "fmt_dataclass" /\ input \in DcInstInputs /\ fmt = NoFmt
       \/ /\ pc = "write_txt" /\ input \in WordRecords \cup {OtherV} /\ fmt = NoFmt
          /\ hashOrder = <<1, 2, 3>>
       \/ /\ pc = "process_container" /\ input \in ItemContainers
          /\ fmt \in ItemClasses /\ hashOrder = <<1, 2, 3>>
       \/ /\ pc = "base_add_item" /\ input \in {StrV(<<k>>) : k \in MergeKeys}
          /\ fmt = MergeClass /\ hashOrder = <<1, 2, 3>>
    /\ value = input
    /\ result = NoneV
    /\ item_dict = <<>>

FmtValue ==
    /\ pc = "fmt_value"
    /\ result' = fmt_value(value, fmt)
    /\ op' = "fmt_value"
    /\ pc' = IF IsErr(result') THEN "done" ELSE "fmt_value_again"
    /\ UNCHANGED <<input, value, fmt, hashOrder, item_dict>>

FmtValueAgain ==
    /\ pc = "fmt_value_again"
    /\ value' = result
    /\ result' = fmt_value(result, fmt)
    /\ op' = "fmt_value_again"
    /\ pc' = "done"
    /\ UNCHANGED <<input, fmt, hashOrder, item_dict>>

Val2txt ==
    /\ pc = "val2txt"
    /\ result' = val2txt(value)
    /\ op' = "val2txt"
    /\ pc' = IF IsErr(result') THEN "done" ELSE "txt2val_back"
    /\ UNCHANGED <<input, value, fmt, hashOrder, item_dict>>

Txt2val ==
    /\ pc = "txt2val"
    /\ result' = txt2val(value)
    /\ op' = "txt2val"
    /\ pc' = "done"
    /\ UNCHANGED <<input, value, fmt, hashOrder, item_dict>>

Txt2valBack ==
    /\ pc = "txt2val_back"
    /\ value' = result
    /\ result' = txt2val(result)
    /\ op' = "txt2val_back"
    /\ pc' = "done"
    /\ UNCHANGED <<input, fmt, hashOrder, item_dict>>

GetDcTypeHints ==
    /\ pc = "get_dc_type_hints"
    /\ result' = get_dc_type_hints(value)
    /\ op' = "get_dc_type_hints"
    /\ pc' = "done"
    /\ UNCHANGED <<input, value, fmt, hashOrder, item_dict>>

\* the call of fmt_dataclass with the coerced fields written into the
\* instance it was given
FmtDataclassInPlace ==
    /\ pc = "fmt_dataclass"
    /\ result' = fmt_dataclass(value)
    /\ value' = IF IsErr(result') THEN value ELSE result'
    /\ op' = "fmt_dataclass"
    /\ pc' = "done"
    /\ UNCHANGED <<input, fmt, hashOrder, item_dict>>

FmtDataclass ==
    /\ pc = "fmt_dataclass"
    /\ result' = fmt_dataclass(value)
    /\ op' = "fmt_dataclass"
    /\ pc' = "done"
    /\ UNCHANGED <<input, value, fmt, hashOrder, item_dict>>

WriteTxt ==
    /\ pc = "write_txt"
    /\ result' = write_txt(value)
    /\ op' = "write_txt"
    /\ pc' = IF IsErr(result') THEN "done" ELSE "read_txt_back"
    /\ UNCHANGED <<input, value, fmt, hashOrder, item_dict>>

ReadTxtBack ==
    /\ pc = "read_txt_back"
    /\ value' = result
    /\ result' = read_txt(result)
    /\ op' = "read_txt_back"
    /\ pc' = "done"
    /\ UNCHANGED <<input, fmt, hashOrder, item_dict>>

ProcessContainer ==
    /\ pc = "process_container"
    /\ result' = process_container(value, fmt)
    /\ op' = "process_container"
    /\ pc' = "done"
    /\ UNCHANGED <<input, value, fmt, hashOrder, item_dict>>

BaseAddItem ==
    /\ pc = "base_add_item"
    /\ \E c \in MergeContainers :
           \E out \in {base_add_item(c, fmt, DestOf(fmt), input.s[1], item_dict)} :
               /\ value' = c
               /\ result' = out.ret
               /\ item_dict' = out.d
    /\ op' = "base_add_item"
    /\ UNCHANGED <<pc, input, fmt, hashOrder>>

Next ==
    \/ FmtValue \/ FmtValueAgain \/ Val2txt \/ Txt2val \/ Txt2valBack
    \/ GetDcTypeHints \/ FmtDataclass \/ WriteTxt \/ ReadTxtBack
    \/ ProcessContainer \/ BaseAddItem

Spec == Init /\ [][Next]_vars

(***************************************************************************)
(* Properties.                                                             *)
(***************************************************************************)
RECURSIVE Same(_, _)
\* a and b are the same value of the same kinds throughout; two sets are
\* the same when they hold the same elements, in whatever order
Same(a, b) ==
    CASE a.k # b.k -> FALSE
      [] a.k \in {"list", "tuple"} ->
            /\ Len(a.e) = Len(b.e)
            /\ \A i \in 1..Len(a.e) : Same(a.e[i], b.e[i])
      [] a.k = "set" ->
            /\ Len(a.e) = Len(b.e)
            /\ \A i \in 1..Len(a.e) : \E j \in 1..Len(b.e) : Same(a.e[i], b.e[j])
      [] a.k = "dict" ->
            /\ Len(a.kv) = Len(b.kv)
            /\ \A i \in 1..Len(a.kv) :
                  Same(a.kv[i][1], b.kv[i][1]) /\ Same(a.kv[i][2], b.kv[i][2])
      [] OTHER -> a = b

RECURSIVE MentionsPath(_)
\* the descriptor is pathlib.Path or has it among its type arguments
MentionsPath(f) == f = TPath \/ \E i \in 1..Len(f.a) : MentionsPath(f.a[i])

RECURSIVE AcceptedTarget(_)
\* the targets the engine accepts: the plain types it names, and
\* List/Set/Tuple/Dict with type arguments that are such targets
AcceptedTarget(f) ==
    IF f.g THEN Len(f.a) > 0 /\ \A i \in 1..Len(f.a) : AcceptedTarget(f.a[i])
    ELSE f \in {TBool, TInt, TFloat, TStr, TList, TSet, TTuple, TDict, TNone,
                TPath, TPosixPath}

\* C1 as stated: whenever fmt_value(v, T) succeeds for an accepted target
\* T, fmt_value applied to the result with the same T succeeds and returns
\* the same value.
C1_IdempotentAllTargets ==
    (op = "fmt_value_again" /\ AcceptedTarget(fmt))
        => ~IsErr(result) /\ Same(result, value)

\* C1 amended: whenever fmt_value(v, T) succeeds for an accepted target T
\* that is not pathlib.Path and has no pathlib.Path type argument,
\* fmt_value applied to the result with the same T succeeds and returns the
\* same value.
C1_Idempotent ==
    (op = "fmt_value_again" /\ AcceptedTarget(fmt) /\ ~MentionsPath(fmt))
        => ~IsErr(result) /\ Same(result, value)

\* a second call that had a converted container to work on
C1_Witness ==
    /\ op = "fmt_value_again"
    /\ ~MentionsPath(fmt)
    /\ fmt.g
    /\ input.k = "list" /\ Len(input.e) > 1
    /\ value.k = "dict"
    /\ Same(result, value)

HasFraction(v) == v.k = "float" /\ v.sp = "fin" /\ v.d > 0

\* C2 as stated: for every boolean, integer and float v,
\* txt2val(val2txt(v)) returns v, of the kind it started from.
C2_RoundTripAllScalars ==
    (op = "txt2val_back" /\ input.k \in {"bool", "int", "float"})
        => result = input

\* C2 amended: txt2val(val2txt(v)) returns v for every boolean, every
\* integer and every finite float that has a fractional part; a finite
\* float without a fractional part comes back as the int of the same value.
C2_RoundTrip ==
    op = "txt2val_back" =>
        /\ (input.k \in {"bool", "int"} \/ HasFraction(input)) => result = input
        /\ (input.k = "float" /\ input.sp = "fin" /\ input.d = 0)
              => result = IntV(input.m)

\* a float with a fractional part that made the round trip
C2_Witness ==
    /\ op = "txt2val_back"
    /\ HasFraction(input)
    /\ value.k = "str" /\ "." \in Range(value.s)
    /\ result = input

\* C3: fmt_value sends a bool to fmt_bool and never to fmt_int: a bool to
\* int gives 1 or 0 and a bool to float fails, while an int to float
\* succeeds and an int to bool gives (n != 0); the routine chosen is the
\* first of None, bool, dict, float, int, list, set, str, tuple that the
\* value is an instance of.
TestOrder == <<"none", "bool", "dict", "float", "int", "list", "set", "str", "tuple">>
C3_BoolIsNotInt ==
    op = "fmt_value" =>
        /\ value.k = "bool" => Dispatch(value) = "fmt_bool"
        /\ (value.k = "bool" /\ fmt = TInt)
              => result = IntV(IF value.b THEN 1 ELSE 0)
        /\ (value.k = "bool" /\ fmt = TFloat) => result = ValueError
        /\ (value.k = "int" /\ fmt = TFloat) => result = FloatV(value.n, 0)
        /\ (value.k = "int" /\ fmt = TBool) => result = BoolV(value.n # 0)
        /\ \A i \in 1..Len(TestOrder) :
              (/\ IsInstance(value, TestOrder[i])
               /\ \A j \in 1..(i-1) : ~IsInstance(value, TestOrder[j]))
              => Dispatch(value)
                   = [c \in Range(TestOrder) |->
                        CASE c = "none" -> "fmt_none" [] c = "bool" -> "fmt_bool"
                          [] c = "dict" -> "fmt_dict" [] c = "float" -> "fmt_float"
                          [] c = "int" -> "fmt_int" [] c = "list" -> "fmt_list"
                          [] c = "set" -> "fmt_set" [] c = "str" -> "fmt_str"
                          [] OTHER -> "fmt_tuple"][TestOrder[i]]

\* True was refused as a float
C3_Witness ==
    /\ op = "fmt_value"
    /\ value = BoolV(TRUE)
    /\ fmt = TFloat
    /\ result = ValueError

\* the value a dict holds for a key that is in it
DictGet(kv, key) == kv[CHOOSE i \in 1..Len(kv) : PyEq(kv[i][1], key)][2]

KeyPositions(e) == {i \in 1..Len(e) : i % 2 = 1}

\* the list of elements as fmt_list coerces it for the target f: as it is
\* for dict, and with the elements at key positions coerced to K and the
\* other ones to V for Dict[K, V]
CoercedPairs(e, f) ==
    IF f = TDict THEN e
    ELSE [i \in 1..Len(e) |-> fmt_value(e[i], f.a[IF i % 2 = 1 THEN 1 ELSE 2])]

IsDictTarget(f) == f = TDict \/ (f.g /\ f.b = "dict" /\ Len(f.a) = 2)

\* C4 as stated: converting an even-length list to dict or Dict[K, V] maps
\* every key to the value paired with the first occurrence of that key.
C4_FirstKeyWins ==
    (/\ op = "fmt_value"
     /\ value.k = "list" /\ Len(value.e) % 2 = 0
     /\ IsDictTarget(fmt)
     /\ result.k = "dict")
    => LET e == CoercedPairs(value.e, fmt)
       IN \A i \in KeyPositions(e) :
             (\A j \in KeyPositions(e) : j < i => ~PyEq(e[j], e[i]))
                => Same(DictGet(result.kv, e[i]), e[i + 1])

\* C5 as stated: an even-length list (of elements that can be keys)
\* converted to dict gives the mapping of its adjacent pairs, in order, a
\* repeated key keeping the pair of its first occurrence; an odd-length
\* list converted to dict or Dict[K, V] fails with ValueError.
C5_AdjacentPairs ==
    (op = "fmt_value" /\ value.k = "list" /\ IsDictTarget(fmt)) =>
        /\ (/\ fmt = TDict /\ Len(value.e) % 2 = 0
            /\ \A i \in KeyPositions(value.e) : Hashable(value.e[i])) =>
              /\ result.k = "dict"
              /\ LET first == {i \in KeyPositions(value.e) :
                                 \A j \in KeyPositions(value.e) :
                                    j < i => ~PyEq(value.e[j], value.e[i])}
                 IN result.kv = Pick([i \in 1..Len(value.e) |->
                                        IF i % 2 = 1
                                        THEN <<value.e[i], value.e[i + 1]>>
                                        ELSE <<>>], first)
        /\ Len(value.e) % 2 = 1 => result = ValueError

\* C6: fmt_dict(m, Dict[K, V]) coerces every key to K and every value to V,
\* and when several source keys coerce to equal target keys the result
\* holds the pair of the one seen first and drops the later ones without
\* error.
C6_DictFirstSeenWins ==
    (/\ op = "fmt_value"
     /\ value.k = "dict"
     /\ fmt.g /\ fmt.b = "dict" /\ Len(fmt.a) = 2)
    => LET kv == value.kv
           nk == [i \in 1..Len(kv) |-> fmt_value(kv[i][1], fmt.a[1])]
           nv == [i \in 1..Len(kv) |-> fmt_value(kv[i][2], fmt.a[2])]
           allOk == \A i \in 1..Len(kv) :
                       ~IsErr(nk[i]) /\ ~IsErr(nv[i]) /\ Hashable(nk[i])
           first == {i \in 1..Len(kv) : \A j \in 1..(i-1) : ~PyEq(nk[j], nk[i])}
       IN allOk => result = DictV(Pick([i \in 1..Len(kv) |-> <<nk[i], nv[i]>>],
                                       first))

\* two source keys that became one target key
C6_Witness ==
    /\ op = "fmt_value"
    /\ value = DictV(<<<<IntV(1), Txt1>>, <<Txt1, StrV(<<"x">>)>>>>)
    /\ fmt = Generic("dict", <<TInt, TStr>>)
    /\ result = DictV(<<<<IntV(1), Txt1>>>>)

IsScalar(v) == v.k \in {"none", "bool", "int", "float", "str"}

\* C7 as stated: for a set of scalars val2txt returns the comma-join of the
\* elements' text forms, sorted as texts.
C7_SetSortedAsText ==
    (/\ op = "val2txt"
     /\ input.k = "set"
     /\ \A i \in 1..Len(input.e) : IsScalar(input.e[i]))
    => LET txts == [i \in 1..Len(input.e) |-> fmt_value(input.e[i], TStr)]
           sorted == SortedStrs(txts)
       IN result = StrV(Join([i \in 1..Len(sorted) |-> sorted[i].s], ","))

ListedKinds == {"str", "path", "set", "bool", "dict", "float", "int", "list", "tuple"}

\* C8 as stated: val2txt fails with ValueError for every input whose kind
\* is not str, path-like, set, bool, dict, float, int, list or tuple, and
\* returns text for the scalar kinds among those.
C8_OnlyListedKinds ==
    op = "val2txt" =>
        /\ input.k \notin ListedKinds => result = ValueError
        /\ input.k \in {"str", "path", "bool", "float", "int"} => result.k = "str"

RECURSIVE HasTextForm(_)
\* a scalar, or a container of values that have a text form
HasTextForm(v) ==
    CASE IsScalar(v) -> TRUE
      [] v.k \in {"list", "tuple", "set"} ->
            \A i \in 1..Len(v.e) : HasTextForm(v.e[i])
      [] v.k = "dict" ->
            \A i \in 1..Len(v.kv) : HasTextForm(v.kv[i][1]) /\ HasTextForm(v.kv[i][2])
      [] OTHER -> FALSE

\* C8 amended: val2txt returns text for str, path-like, bool, float and int
\* inputs and also for None (the empty text); it returns text for a dict,
\* list or tuple whose elements all have a text form, and for such a set
\* when its elements can be ordered; it fails with ValueError for every
\* input of any other kind.
C8_ListedKindsAndNone ==
    op = "val2txt" =>
        /\ input.k \notin (ListedKinds \cup {"none"}) => result = ValueError
        /\ input.k \in {"str", "path", "bool", "float", "int"} => result.k = "str"
        /\ input = NoneV => result = StrV(<<>>)
        /\ (input.k \in {"list", "tuple", "dict"} /\ HasTextForm(input))
              => result.k = "str"
        /\ (/\ input.k = "set" /\ HasTextForm(input)
            /\ \A i, j \in 1..Len(input.e) :
                  i # j => CanCompare(input.e[i], input.e[j]))
              => result.k = "str"

\* None was given and the empty text came back
C8_Witness ==
    /\ op = "val2txt"
    /\ input = NoneV
    /\ result = StrV(<<>>)

\* C9 as stated: a value whose kind is none of None, bool, dict, float,
\* int, list, set, str, tuple makes fmt_value fail with ValueError for
\* every target.
C9_UnknownKindFails ==
    (op = "fmt_value" /\ value.k \in {"path", "other"}) => result = ValueError

\* C9 amended: such a value makes fmt_value fail with ValueError for every
\* target other than its own exact type, for which the value is returned
\* unchanged.
C9_UnknownKindFailsUnlessSameType ==
    (op = "fmt_value" /\ value.k \in {"path", "other"})
        => result = IF (value.k = "path" /\ fmt = TPosixPath)
                         \/ (value.k = "other" /\ fmt = TOther)
                      THEN value ELSE ValueError

\* a path object was refused for pathlib.Path, which is not its exact type
C9_Witness ==
    /\ op = "fmt_value"
    /\ value.k = "path"
    /\ fmt = TPath
    /\ result = ValueError

\* the number of commas in a text
RECURSIVE CountCommas(_)
CountCommas(s) ==
    IF Len(s) = 0 THEN 0
    ELSE (IF s[1] = "," THEN 1 ELSE 0) + CountCommas(Tail(s))

\* C10 as stated: txt2val maps 'None' to None and any casing of 'true' or
\* 'false' to the boolean; every other text with a comma yields a list
\* with one element per comma-separated part, element i being txt2val of
\* the trimmed part i.
C10_KeywordsThenCommas ==
    (op = "txt2val" /\ value.k = "str") =>
        LET s == value.s
            low == StrLower(s)
            isTrue == low = <<"t", "r", "u", "e">>
            isFalse == low = <<"f", "a", "l", "s", "e">>
        IN /\ s = <<"N", "o", "n", "e">> => result = NoneV
           /\ isTrue => result = BoolV(TRUE)
           /\ isFalse => result = BoolV(FALSE)
           /\ (/\ s # <<"N", "o", "n", "e">> /\ ~isTrue /\ ~isFalse
               /\ "," \in Range(s))
              => /\ result.k = "list"
                 /\ Len(result.e) = CountCommas(s) + 1
                 /\ \A i \in 1..Len(result.e) :
                       result.e[i] = txt2val(StrV(Strip(Split(s, ",")[i])))

\* the base a text is read in by the prefix rule of txt2val: 2, 8 or 16 for
\* a text longer than 2 characters that starts with 0b, 0o or 0x, else 0
PrefixBase(s) ==
    IF Len(s) <= 2 THEN 0
    ELSE CASE SubSeq(s, 1, 2) = <<"0", "b">> -> 2
           [] SubSeq(s, 1, 2) = <<"0", "o">> -> 8
           [] SubSeq(s, 1, 2) = <<"0", "x">> -> 16
           [] OTHER -> 0

\* C11: for every comma-free text longer than 2 characters that starts with
\* 0b, 0o or 0x (no keyword starts so), txt2val returns the integer read in
\* base 2, 8 or 16, and the text itself, unchanged, when it is no literal of
\* that base; it never fails on such a text.
C11_BasedLiterals ==
    (/\ op = "txt2val" /\ value.k = "str"
     /\ "," \notin Range(value.s)
     /\ PrefixBase(value.s) # 0)
    => /\ result = IF ParseInt(value.s, PrefixBase(value.s)).ok
                   THEN ParseInt(value.s, PrefixBase(value.s)).v
                   ELSE value
       /\ value.s = <<"0", "x", "1", "1", "0">> => result = IntV(272)
       /\ value.s = <<"0", "b", "1", "1", "0">> => result = IntV(6)
       /\ value.s = <<"0", "o", "7", "7", "0">> => result = IntV(504)
       /\ (\E i \in 3..Len(value.s) :
              DigitVal(value.s[i]) \notin 0..(PrefixBase(value.s) - 1)
              /\ value.s[i] \notin {"_", " "})
             => result = value

\* a text with the hexadecimal prefix that is no literal came back unchanged
C11_Witness ==
    /\ op = "txt2val"
    /\ value = StrV(<<"0", "x", "1", "1", "0", "x">>)
    /\ result = value

\* the texts the keyword rule of txt2val takes: 'None', and 'true' or 'false'
\* in any casing
IsKeyword(s) ==
    \/ s = <<"N", "o", "n", "e">>
    \/ StrLower(s) \in {<<"t", "r", "u", "e">>, <<"f", "a", "l", "s", "e">>}

\* a text left to the last rule of txt2val, the float parse
ForFloatRule(s) == ~IsKeyword(s) /\ "," \notin Range(s) /\ PrefixBase(s) = 0

\* C12 as stated: for every text not handled by the keyword, comma or
\* base-prefix rules, txt2val never raises: it returns the text unchanged
\* when the text does not parse as a float, the integer when the parsed
\* float has no fractional part, and the float otherwise.
C12_NumericInference ==
    (op = "txt2val" /\ value.k = "str" /\ ForFloatRule(value.s))
    => /\ ~IsErr(result)
       /\ ~ParseFloat(value.s).ok => result = value
       /\ (ParseFloat(value.s).ok /\ IsIntegral(ParseFloat(value.s).v))
             => result = IntV(ParseFloat(value.s).v.m)
       /\ (ParseFloat(value.s).ok /\ HasFraction(ParseFloat(value.s).v))
             => result = ParseFloat(value.s).v

\* the empty container of a base kind
EmptyOf(b) ==
    CASE b = "list" -> ListV(<<>>) [] b = "set" -> SetV(<<>>)
      [] b = "tuple" -> TupleV(<<>>) [] OTHER -> DictV(<<>>)

\* List[E], Set[E] or Tuple[E]
IsContainerOf(f) == f.g /\ f.b \in Containers /\ Len(f.a) = 1

\* C13 as stated: for every scalar source (bool, int, float, text, None)
\* and every target List[E], Set[E] or Tuple[E], a successful conversion
\* returns a container of the base kind that holds exactly one element, the
\* value coerced to E.
C13_ScalarPromotion ==
    (/\ op = "fmt_value" /\ IsScalar(value) /\ IsContainerOf(fmt)
     /\ ~IsErr(result))
    => /\ result.k = fmt.b
       /\ result.e = <<fmt_value(value, fmt.a[1])>>

\* C13 amended: for every boolean, integer, float and non-empty text and
\* every target List[E], Set[E] or Tuple[E], a successful conversion
\* returns a container of the base kind that holds exactly one element, the
\* value coerced to E, and the conversion fails when that coercion fails;
\* for None and for the empty text it returns the empty container of the
\* base kind.
C13_ScalarPromotionUnlessAbsent ==
    (op = "fmt_value" /\ IsScalar(value) /\ IsContainerOf(fmt))
    => IF value = NoneV \/ value = StrV(<<>>)
       THEN result = EmptyOf(fmt.b)
       ELSE /\ IsErr(fmt_value(value, fmt.a[1])) => IsErr(result)
            /\ ~IsErr(result)
                  => /\ result.k = fmt.b
                     /\ result.e = <<fmt_value(value, fmt.a[1])>>

\* True was promoted to the list of its text
C13_Witness ==
    /\ op = "fmt_value"
    /\ value = BoolV(TRUE)
    /\ fmt = Generic("list", <<TStr>>)
    /\ result = ListV(<<TxtTrue>>)

\* C14: fmt_none(None, T) returns the empty container for T in dict, list,
\* set, tuple and for List[E], Set[E], Tuple[E], the empty text for str,
\* and fails with ValueError for bool, int and float; for every target T
\* other than str, fmt_str('', T) has exactly the outcome of
\* fmt_none(None, T), value or failure.
C14_AbsenceRules ==
    op = "fmt_value" =>
        /\ (value = NoneV /\ fmt \in {TDict, TList, TSet, TTuple})
              => result = EmptyOf(fmt.b)
        /\ (value = NoneV /\ IsContainerOf(fmt)) => result = EmptyOf(fmt.b)
        /\ (value = NoneV /\ fmt = TStr) => result = StrV(<<>>)
        /\ (value = NoneV /\ fmt \in {TBool, TInt, TFloat})
              => result = ValueError
        /\ (value = StrV(<<>>) /\ fmt # TStr) => result = fmt_none(NoneV, fmt)

\* the empty text was given for Set[int] and the empty set came back, as for
\* None
C14_Witness ==
    /\ op = "fmt_value"
    /\ value = StrV(<<>>)
    /\ fmt = Generic("set", <<TInt>>)
    /\ result = SetV(<<>>)
    /\ fmt_none(NoneV, fmt) = SetV(<<>>)

\* C15 as stated: for every non-empty text s, fmt_str(s, float) returns the
\* parsed float when s parses as a float, fmt_str(s, int) returns the
\* integer when the parsed float has no fractional part, and in every other
\* case the call fails with ValueError.
C15_TextToNumber ==
    (/\ op = "fmt_value" /\ value.k = "str" /\ value.s # <<>>
     /\ fmt \in {TFloat, TInt})
    => result = IF fmt = TFloat
                THEN (IF ParseFloat(value.s).ok THEN ParseFloat(value.s).v
                      ELSE ValueError)
                ELSE (IF ParseFloat(value.s).ok
                         /\ IsIntegral(ParseFloat(value.s).v)
                      THEN IntV(ParseFloat(value.s).v.m)
                      ELSE ValueError)

\* C16: fmt_value(x, int) fails with ValueError for every float x, whole or
\* not; and conversion to dict or Dict[K, V] fails with ValueError for
\* every bool, int, float, non-empty text, set and tuple.
C16_ForbiddenConversions ==
    op = "fmt_value" =>
        /\ (value.k = "float" /\ fmt = TInt) => result = ValueError
        /\ (/\ IsDictTarget(fmt)
            /\ \/ value.k \in {"bool", "int", "float", "set", "tuple"}
               \/ value.k = "str" /\ value.s # <<>>)
              => result = ValueError

\* the whole float 1.0 was refused as an int
C16_Witness ==
    /\ op = "fmt_value"
    /\ value = FloatV(1, 0)
    /\ fmt = TInt
    /\ result = ValueError

\* str(v) of a scalar, the empty text for None
ScalarText(v) ==
    CASE v.k = "none" -> <<>>
      [] v.k = "bool" -> BoolStr(v.b)
      [] v.k = "int" -> IntStr(v.n)
      [] v.k = "float" -> FloatStr(v)
      [] OTHER -> v.s

RECURSIVE FlatTextsOf(_)
\* the texts of the scalars found in the elements e, nested lists and
\* tuples opened up, from left to right
FlatTextsOf(e) ==
    IF Len(e) = 0 THEN <<>>
    ELSE (IF IsScalar(e[1]) THEN <<ScalarText(e[1])>> ELSE FlatTextsOf(e[1].e))
         \o FlatTextsOf(Tail(e))

RECURSIVE OrderedNest(_)
\* a list or tuple of scalars and of non-empty lists and tuples of that sort
OrderedNest(v) ==
    /\ v.k \in {"list", "tuple"}
    /\ \A i \in 1..Len(v.e) :
          IsScalar(v.e[i]) \/ (OrderedNest(v.e[i]) /\ Len(v.e[i].e) > 0)

\* C17: conversion of a list or tuple of supported values to str (by
\* fmt_value or val2txt) returns the text forms of its elements joined by a
\* plain comma, in source order and without brackets; nested lists and
\* tuples come out flattened into the same comma-joined line, and an empty
\* container gives the empty text.
C17_OrderedToText ==
    (/\ (op = "fmt_value" /\ fmt = TStr) \/ op = "val2txt"
     /\ value.k \in {"list", "tuple"})
    => /\ HasTextForm(value)
             => result = StrV(Join([i \in 1..Len(value.e) |->
                                       fmt_value(value.e[i], TStr).s], ","))
       /\ OrderedNest(value) => result = StrV(Join(FlatTextsOf(value.e), ","))
       /\ value.e = <<>> => result = StrV(<<>>)

\* a list holding a list came out as one line
C17_Witness ==
    /\ op = "val2txt"
    /\ value = ListV(<<ListV(<<IntV(1), IntV(2)>>), IntV(10)>>)
    /\ result = StrV(<<"1", ",", "2", ",", "1", "0">>)

\* C18 as stated: conversion of a mapping with n entries to str (by
\* fmt_value or val2txt) returns the comma-join of the text forms of
\* k1, v1, ..., kn, vn in the mapping's order, every key and every value of
\* the source among them.
C18_MappingKeepsEntries ==
    (/\ (op = "fmt_value" /\ fmt = TStr) \/ op = "val2txt"
     /\ value.k = "dict" /\ HasTextForm(value))
    => result = StrV(Join([i \in 1..(2 * Len(value.kv)) |->
                             fmt_value(DictToList(value.kv)[i], TStr).s], ","))

\* C19 as stated: when a non-empty list is converted to a parameterized
\* container that declares n type arguments, element i is coerced to type
\* argument (i mod n) and the coerced elements are then put into the
\* container of the base kind; for Dict[K, V] the elements at even indexes
\* are coerced to K and those at odd indexes to V before being paired.
C19_CyclicElementTypes ==
    (/\ op = "fmt_value"
     /\ value.k = "list" /\ Len(value.e) > 0
     /\ fmt.g /\ fmt.b \in {"list", "set", "tuple", "dict"} /\ Len(fmt.a) > 0)
    => LET coerced == [i \in 1..Len(value.e) |->
                          fmt_value(value.e[i],
                                    fmt.a[((i - 1) % Len(fmt.a)) + 1])]
       IN IF \A i \in 1..Len(value.e) : ~IsErr(coerced[i])
          THEN result = fmt_list(ListV(coerced), Plain(fmt.b))
          ELSE IsErr(result)

(***************************************************************************)
(* C20                                                                     *)
(***************************************************************************)
\* the plain kinds a type argument may be for the alias to be kept: the
\* plain scalar kinds and the unparameterized containers
SupportedPlain == {TBool, TInt, TFloat, TStr, TList, TSet, TTuple, TDict}

\* the descriptor of a field of declared type t: the alias when its base is
\* a container kind and every argument is a supported plain kind, else its
\* base kind; a plain type as declared
DegradedOf(t) ==
    IF ~t.g THEN t
    ELSE IF t.b \in Containers \cup {"dict"}
            /\ \A i \in 1..Len(t.a) : t.a[i] \in SupportedPlain
         THEN t
         ELSE Plain(t.b)

\* C20: get_dc_type_hints of a dataclass returns, in field order with the
\* inherited fields first, each field's name with its declared type when
\* that is plain, with its parameterized descriptor when the base kind is
\* list, dict, set or tuple and every type argument is a supported plain
\* kind (boolean, integer, floating-point, text or an unparameterized
\* container), and with the unparameterized base kind otherwise.
C20_SchemaDegradation ==
    (op = "get_dc_type_hints" /\ value.k = "dataclass")
    => /\ result.k = "hints"
       /\ Len(result.kv) = Len(fields(value))
       /\ \A i \in 1..Len(result.kv) :
              result.kv[i] = <<fields(value)[i].name,
                               DegradedOf(fields(value)[i].type)>>

(***************************************************************************)
(* C26                                                                     *)
(***************************************************************************)
\* C26: for every mapping, conversion to each destination the docstring of
\* fmt_dict lists (str, dict, list, set and tuple, plain or parameterized)
\* succeeds.
C26_DictDestinations ==
    (/\ op = "fmt_value"
     /\ value.k = "dict"
     /\ fmt.b \in {"str", "dict", "list", "set", "tuple"}
     /\ fmt.g => Len(fmt.a) > 0)
    => ~IsErr(result)

(***************************************************************************)
(* C27                                                                     *)
(***************************************************************************)
\* C27: a call of fmt_value or of val2txt either returns a value or fails
\* with ValueError; no other exception escapes.
C27_OnlyValueError ==
    (op \in {"fmt_value", "val2txt"} /\ IsErr(result)) => result = ValueError

(***************************************************************************)
(* C28                                                                     *)
(***************************************************************************)
\* v has the kind the descriptor t declares: its exact type for a plain t
\* (a path object for pathlib.Path); for a parameterized t the base kind,
\* with every element, or every key and every value, of the declared kind
RECURSIVE HasKind(_, _)
HasKind(v, t) ==
    IF ~t.g THEN TypeOf(v) = t \/ (t = TPath /\ v.k = "path")
    ELSE /\ v.k = t.b
         /\ IF t.b = "dict"
            THEN \A i \in 1..Len(v.kv) :
                     HasKind(v.kv[i][1], t.a[1]) /\ HasKind(v.kv[i][2], t.a[2])
            ELSE \A i \in 1..Len(v.e) : HasKind(v.e[i], t.a[1])

\* C28: when fmt_value(v, T) succeeds, the result has exactly the kind T for
\* a plain T among bool, int, float, str, list, set, tuple and dict, and for
\* List[E], Set[E], Tuple[E] and Dict[K, V] it has the base kind and holds
\* only elements of kind E, respectively keys of kind K and values of kind V.
C28_ResultKindMatchesTarget ==
    (/\ op = "fmt_value" /\ ~IsErr(result)
     /\ \/ fmt \in {TBool, TInt, TFloat, TStr, TList, TSet, TTuple, TDict}
        \/ fmt.g /\ fmt.b \in Containers /\ Len(fmt.a) = 1
        \/ fmt.g /\ fmt.b = "dict" /\ Len(fmt.a) = 2)
    => HasKind(result, fmt)

\* a list of texts and numbers becomes a Dict[int, str] with a key and a
\* value that were both coerced
C28_Witness ==
    /\ op = "fmt_value" /\ fmt = Generic("dict", <<TInt, TStr>>)
    /\ value.k = "list" /\ Len(value.e) = 2
    /\ TypeOf(value.e[1]) = TStr /\ TypeOf(value.e[2]) = TInt
    /\ result.k = "dict" /\ Len(result.kv) = 1

(***************************************************************************)
(* C30                                                                     *)
(***************************************************************************)
\* C30: for every set of scalar values for which val2txt and fmt_value to
\* str both succeed, the two give the same text.
C30_SetTextRoutesAgree ==
    (/\ op = "val2txt" /\ value.k = "set"
     /\ \A i \in 1..Len(value.e) : IsScalar(value.e[i])
     /\ ~IsErr(result) /\ ~IsErr(fmt_value(value, TStr)))
    => result = fmt_value(value, TStr)

(***************************************************************************)
(* C21                                                                     *)
(***************************************************************************)
\* C21: fmt_dataclass of a dataclass instance returns an instance of the
\* same class whose fields, in the same order, are the fields coerced by
\* fmt_value to their schema types; if a field cannot be coerced the call
\* fails with ValueError; an input that is no dataclass instance fails with
\* TypeError.
C21_RecordAllOrNothing ==
    op = "fmt_dataclass"
    => IF value.k # "inst" THEN result = TypeError
       ELSE IF \A i \in 1..Len(value.v) : ~IsErr(CoercedFields(value)[i])
       THEN result = InstV(value.cls, CoercedFields(value))
       ELSE result = ValueError

(***************************************************************************)
(* C23                                                                     *)
(***************************************************************************)
\* C23 as stated: for every record (groups: list, name: str, platforms:
\* list) of words, write_txt gives one text per field in field order, the
\* lists comma-joined, and read_txt of that row gives back the field values.
C23_RowRoundTrip ==
    /\ (op = "write_txt" /\ value.k = "inst")
       => result = ListV(<<StrV(Join(FlatTextsOf(value.v[1].e), ",")),
                           value.v[2],
                           StrV(Join(FlatTextsOf(value.v[3].e), ","))>>)
    /\ (op = "read_txt_back" /\ input.k = "inst")
       => result = ListV(input.v)

\* a word that txt2val leaves as it is: no keyword, no number
PlainWord(w) == ~IsKeyword(w.s) /\ ~ParseFloat(w.s).ok

\* C23, amended: write_txt gives one text per field in field order, the
\* lists comma-joined; when both lists hold at least two words and no word
\* of the record is a keyword or a number to txt2val, read_txt of that row
\* gives back the field values.
C23_RowRoundTripOfWordLists ==
    /\ (op = "write_txt" /\ value.k = "inst")
       => result = ListV(<<StrV(Join(FlatTextsOf(value.v[1].e), ",")),
                           value.v[2],
                           StrV(Join(FlatTextsOf(value.v[3].e), ","))>>)
    /\ (/\ op = "read_txt_back" /\ input.k = "inst"
        /\ Len(input.v[1].e) >= 2 /\ Len(input.v[3].e) >= 2
        /\ PlainWord(input.v[2])
        /\ \A i \in 1..Len(input.v[1].e) : PlainWord(input.v[1].e[i])
        /\ \A i \in 1..Len(input.v[3].e) : PlainWord(input.v[3].e[i]))
       => result = ListV(input.v)

\* the record (['g1', 'a'], 'nemo', ['a', 'g1']) went to its text row and
\* came back
C23_Witness ==
    /\ op = "read_txt_back"
    /\ input.k = "inst"
    /\ input.v = <<ListV(<<StrV(<<"g", "1">>), TxtA>>),
                   StrV(<<"n", "e", "m", "o">>),
                   ListV(<<TxtA, StrV(<<"g", "1">>)>>)>>
    /\ value = ListV(<<StrV(<<"g", "1", ",", "a">>),
                       StrV(<<"n", "e", "m", "o">>),
                       StrV(<<"a", ",", "g", "1">>)>>)
    /\ result = ListV(input.v)

(***************************************************************************)
(* C24                                                                     *)
(***************************************************************************)
\* x has the type t declares: for a plain t it is an instance of t, for a
\* parameterized t it has the base kind and elements of the declared kind
HasType(x, t) == IF t.g THEN HasKind(x, t) ELSE IsInstance(x, t.b)

\* a list of exactly as many values as dc has fields, the first of the
\* first field's type
IsFieldList(x, dc) ==
    /\ x.k = "list" /\ Len(x.e) = Len(fields(dc))
    /\ HasType(x.e[1], fields(dc)[1].type)

\* C24 as stated: for a dataclass dc, process_container gives [instance]
\* for an instance of dc, the list itself for a list of instances, one
\* instance built positionally for a flat list of n_fields values whose
\* first element has the first field's type, one instance per inner list
\* for a list of such lists, and ValueError for a list mixing instances and
\* raw lists and for any other shape; TypeError when dc is no dataclass.
C24_ContainerShapes ==
    (op = "process_container" /\ fmt # TStr)
    => IF fmt = TOther THEN result = TypeError
       ELSE IF IsA(value, fmt) THEN result = ListV(<<value>>)
       ELSE IF value.k # "list" THEN result = ValueError
       ELSE IF \A i \in 1..Len(value.e) : IsA(value.e[i], fmt) THEN result = value
       ELSE IF IsFieldList(value, fmt) THEN result = ListV(<<InstV(fmt, value.e)>>)
       ELSE IF \A i \in 1..Len(value.e) : IsFieldList(value.e[i], fmt)
       THEN result = ListV([i \in 1..Len(value.e) |-> InstV(fmt, value.e[i].e)])
       ELSE result = ValueError

(***************************************************************************)
(* C22 and C29                                                             *)
(***************************************************************************)
\* the items a successful call on the container c gets to store, coerced
\* and built as the destination class
BuiltItems(c) ==
    [i \in 1..Len(process_container(c, fmt).e) |->
        DestInst(fmt_dataclass(process_container(c, fmt).e[i]), DestOf(fmt))]

\* the key of a built item
KeyOf(item_inst) == item_inst.v[FieldPos(fields(item_inst.cls), input.s[1])]

\* C22: a successful call of base_add_item replaces and removes no entry
\* of item_dict; it returns exactly the keys it inserted, in container
\* order, and stores under each of them the first item of the container
\* that has that key; merging the same container again returns an empty
\* list and leaves item_dict unchanged.
C22_MergeNeverOverwrites ==
    [][(pc = "base_add_item" /\ ~IsErr(result'))
       => LET built == BuiltItems(value')
              keys == [j \in 1..Len(built) |-> KeyOf(built[j])]
          IN /\ Len(item_dict') >= Len(item_dict)
             /\ SubSeq(item_dict', 1, Len(item_dict)) = item_dict
             /\ result' = ListV([i \in 1..(Len(item_dict') - Len(item_dict)) |->
                                    item_dict'[Len(item_dict) + i][1]])
             /\ \A i \in (Len(item_dict) + 1)..Len(item_dict') :
                    \E j \in 1..Len(built) :
                        /\ item_dict'[i] = <<keys[j], built[j]>>
                        /\ \A h \in 1..(j - 1) : ~PyEq(keys[h], keys[j])
             /\ \A i, j \in 1..Len(item_dict') :
                    i # j => ~PyEq(item_dict'[i][1], item_dict'[j][1])
             /\ (op = "base_add_item" /\ ~IsErr(result) /\ value' = value)
                => (result' = ListV(<<>>) /\ item_dict' = item_dict)]_vars

\* C29: a call of base_add_item that raises leaves item_dict as it was.
C29_FailedMergeLeavesStore ==
    [][(pc = "base_add_item" /\ IsErr(result')) => item_dict' = item_dict]_vars

\* a container of two rows with the key 1 was merged into a store that held
\* that key: nothing was added, and the store holds the row merged first
C22_Witness ==
    /\ op = "base_add_item" /\ input = StrV(<<"x">>)
    /\ value = ListV(<<ListV(<<IntV(1), Txt1>>), ListV(<<IntV(1), IntV(2)>>)>>)
    /\ result = ListV(<<>>)
    /\ Len(item_dict) = 2
    /\ item_dict[1] = <<IntV(1), InstV(DestOf(fmt), <<IntV(1), Txt1, ListV(<<>>)>>)>>

====
